---------------------------- MODULE Spec2Model ----------------------------
(***************************************************************************)
(* A model of the request dispatch pipeline of mows: the Router (static   *)
(* and parameterized routes), RouterGroup (prefix and middleware           *)
(* accumulation over Go slices), and Engine.handle (chain assembly and     *)
(* execution); beside it the built-in middleware, Static and StaticFS, the *)
(* helpers of Context, the template engine, and Run with its graceful      *)
(* shutdown.                                                               *)
(*                                                                         *)
(* Strings are sequences of one-character strings, so that strings.Trim,   *)
(* strings.Split, strings.HasPrefix and strings.Contains are computed the  *)
(* way the Go library computes them.  A []Middleware value is a slice      *)
(* header (backing array, length); the backing arrays live in `heap`, so   *)
(* that two slices that share an array see each other's writes, as in Go.  *)
(***************************************************************************)
EXTENDS Integers, Sequences, FiniteSets, TLC

VARIABLES
    heap,          \* backing arrays of the []Middleware values: address -> array
    middlewares,   \* Engine.middlewares (global middleware), a slice header
    groups,        \* the *RouterGroup values created so far; groups[1] is rootGroup.
                   \* Beside prefix and middlewares each record keeps history:
                   \* parent (the group it was made from, 0 for Engine.Group) and
                   \* given (the middleware it was given, by value: what the
                   \* parent had been given when it was made, then its own, in
                   \* the order given)
    staticRoutes,  \* Router.staticRoutes: method -> (path -> route)
    paramRoutes,   \* Router.paramRoutes: method -> sequence of paramRoute
    errorHandler,  \* Engine.errorHandler
    regLog,        \* history: what each registration call was given
    calls,         \* history: how many configuration calls were made
    handlerGiven,  \* history: the argument of the last SetErrorHandler call
    last,          \* outcome of the request just dispatched, if any
    templates,     \* Engine.templates: the *TemplateEngine, or nil, and history
    devMode,       \* Engine.devMode
    ctx,           \* the request of the Context a helper is called on, and the
                   \* arguments of the call
    ret,           \* what the helper call returned and did, if one was made
    server         \* Engine.server and the goroutines of Run: where Run and the
                   \* listener goroutine are, the two channels, the connections
                   \* of the http.Server and the age of the shutdown context

vars == <<heap, middlewares, groups, staticRoutes, paramRoutes, errorHandler, regLog, calls,
          handlerGiven, last, templates, devMode, ctx, ret, server>>

-----------------------------------------------------------------------------
(* Bounds *)

\* configuration calls (Use, Group, GET, SetErrorHandler) a program makes on an
\* engine it configures through groups
MaxCalls == 4
\* registrations a program makes on an engine it uses as a plain router
MaxRouterRoutes == 3

\* configuration calls in a run of the program with the built-in middleware
MaxBuiltinCalls == 3

\* configuration calls in a run of the program that serves static files
MaxStaticCalls == 3

\* members of the JSON object in a request body
MaxMembers == 2

\* characters of the raw value of a query parameter
MaxQueryLen == 2

\* configuration calls in a run of the program that renders templates
MaxTemplateCalls == 4

\* connections the server accepts while Run is serving
MaxConns == 2

-----------------------------------------------------------------------------
(* Strings *)

\* strings.Trim(s, "/"), leading part
RECURSIVE TrimLeft(_)
TrimLeft(s) ==
    IF s # <<>> /\ Head(s) = "/" THEN TrimLeft(Tail(s)) ELSE s

\* strings.Trim(s, "/"), trailing part
RECURSIVE TrimRight(_)
TrimRight(s) ==
    IF s # <<>> /\ s[Len(s)] = "/" THEN TrimRight(SubSeq(s, 1, Len(s) - 1)) ELSE s

\* strings.Trim(s, "/")
Trim(s) == TrimRight(TrimLeft(s))

\* strings.Split(s, "/"): every substring between separators, empty ones kept;
\* the split of the empty string is one empty substring
RECURSIVE SplitFrom(_, _)
SplitFrom(s, cur) ==
    IF s = <<>> THEN <<cur>>
    ELSE IF Head(s) = "/" THEN <<cur>> \o SplitFrom(Tail(s), <<>>)
    ELSE SplitFrom(Tail(s), Append(cur, Head(s)))

Split(s) == SplitFrom(s, <<>>)

\* strings.HasPrefix(part, ":")
HasPrefixColon(part) == part # <<>> /\ Head(part) = ":"

\* strings.Contains(path, ":")
ContainsColon(path) == \E i \in 1..Len(path) : path[i] = ":"

\* part[1:]
DropFirst(part) == Tail(part)


-----------------------------------------------------------------------------
(* Values *)

Methods == {"GET", "POST"}

\* the zero value of a slice element (a nil func)
NilEntry == [kind |-> "nil", id |-> ""]

\* a user-written Middleware value
Mw(id) == [kind |-> "mw", id |-> id]

\* the address of no array
NilAddr == <<>>

\* the nil slice
NilSlice == [arr |-> NilAddr, len |-> 0]

\* a nil *route
NoRoute == [handler |-> <<>>, middlewares |-> NilSlice, nil |-> TRUE]

\* an empty map[string]string, as make(map[string]string) returns it
EmptyMap == [k \in {} |-> <<>>]

\* m[k] = v on a map
MapPut(m, k, v) == [x \in (DOMAIN m) \cup {k} |-> IF x = k THEN v ELSE m[x]]

\* m[k] on a map, or on a nil map: the zero value when the key is absent
MapGet(m, k) == IF k \in DOMAIN m THEN m[k] ELSE <<>>

\* Context.Param(key) on a Context whose Params is params
Param(params, key) == MapGet(params, key)

\* http.StatusNotFound, which http.NotFound writes
StatusNotFound == 404

\* http.StatusBadRequest, which defaultErrorHandler writes
StatusBadRequest == 400

\* http.StatusOK: the wrapper's status before any WriteHeader
StatusOK == 200

\* http.StatusInternalServerError, what Recover writes
StatusInternalServerError == 500

\* the seconds shutdown() gives Server.Shutdown: 5*time.Second
GracePeriod == 5

\* c.JSON(code, v) and c.Text(code, s) as the writer sees them: WriteHeader(code)
\* on the wrapper, then the body.  JSON encodes to c.Writer.ResponseWriter, the
\* writer the wrapper wraps, and writes the JSON text of v and a newline; Text
\* writes s with c.Writer.Write.  counted says whether the body went through
\* the wrapper's Write, which adds its length to rw.size.
JSON(code, v) == [op |-> "respond", code |-> code, counted |-> FALSE,
                  body |-> [ctype |-> "application/json", value |-> v, nl |-> TRUE]]
Text(code, s) == [op |-> "respond", code |-> code, counted |-> TRUE,
                  body |-> [ctype |-> "text/plain", value |-> s, nl |-> FALSE]]

\* http.StripPrefix(prefix, fs).ServeHTTP(c.Writer, c.Request) by the handler
\* id, when the file is there
ServeFile(id) == [op |-> "respond", code |-> StatusOK, counted |-> TRUE,
                  body |-> [ctype |-> "file", value |-> <<id>>, nl |-> FALSE]]

\* serverError{Error: msg}
serverError(msg) == <<"error", msg>>

\* fmt.Printf in Logger; the status it prints is read from the wrapper then
Printf == [op |-> "log", code |-> 0, counted |-> FALSE, body |-> [ctype |-> "", value |-> <<>>, nl |-> TRUE]]

\* a nil *template.Template
NilTmpl == [nil |-> TRUE, funcs |-> EmptyMap, from |-> ""]

\* Engine.templates after New(): a nil *TemplateEngine.  Beside the fields of
\* TemplateEngine the value keeps history: loaded, whether a call of
\* LoadTemplates or LoadTemplatesFS has succeeded, and added, the names
\* AddTemplateFunc was called with.
NilTemplates == [nil |-> TRUE, pattern |-> "", funcMap |-> EmptyMap, tmpl |-> NilTmpl,
                 loaded |-> FALSE, added |-> {}]

\* Engine.server after New(): nil, with Run not called.  run is where Run is
\* (idle, select: about to evaluate its select, parked: blocked in the select
\* because neither channel was ready, woken: handed a value by a sender while
\* parked, poll or wait inside Server.Shutdown, returned), listener where the
\* goroutine Run starts is (none, serving, returned from ListenAndServe, done),
\* serverErr and stop the buffers of the two channels, taken the channel and
\* the value a sender handed to the parked select, conns the state of each
\* connection the server accepted (active while a request is in flight, idle,
\* closed), elapsed the seconds since the shutdown context was made, result
\* what Run returned.
NoServer == [run |-> "idle", listener |-> "none", lnErr |-> "", serverErr |-> <<>>,
             stop |-> <<>>, taken |-> <<>>, conns |-> <<>>, inShutdown |-> FALSE,
             elapsed |-> 0, result |-> ""]

\* the value of `ctx` while no helper call is considered, and of `ret` while none
\* has been made
NoContext == [op |-> "none"]
NoResult == [op |-> "none"]

\* the value of `last` while no request has just been dispatched
NoRequest ==
    [method |-> "", path |-> <<>>, notFound |-> FALSE, written |-> <<>>, handler |-> <<>>,
     chain |-> <<>>, globals |-> <<>>, params |-> EmptyMap, paramsNil |-> TRUE,
     beh |-> EmptyMap, trace |-> <<>>, err |-> <<>>, handled |-> <<>>,
     out |-> <<>>, panicked |-> FALSE]

-----------------------------------------------------------------------------
(* Router *)

\* hasParams(path)
hasParams(path) == ContainsColon(path)

\* MatchParts with the comparison of literal segments left out
RECURSIVE MatchParts_NoLiteralCheck(_, _, _, _)
MatchParts_NoLiteralCheck(pathParts, requestParts, i, params) ==
    IF i > Len(pathParts) THEN [match |-> TRUE, params |-> params]
    ELSE IF HasPrefixColon(pathParts[i])
         THEN MatchParts_NoLiteralCheck(pathParts, requestParts, i + 1,
                         MapPut(params, DropFirst(pathParts[i]), requestParts[i]))
         ELSE MatchParts_NoLiteralCheck(pathParts, requestParts, i + 1, params)

\* MatchParts, but a capture rejects the candidate when the request's segment
\* is empty
RECURSIVE MatchParts_CaptureNeedsText(_, _, _, _)
MatchParts_CaptureNeedsText(pathParts, requestParts, i, params) ==
    IF i > Len(pathParts) THEN [match |-> TRUE, params |-> params]
    ELSE IF HasPrefixColon(pathParts[i])
         THEN IF requestParts[i] = <<>>
              THEN [match |-> FALSE, params |-> params]
              ELSE MatchParts_CaptureNeedsText(pathParts, requestParts, i + 1,
                         MapPut(params, DropFirst(pathParts[i]), requestParts[i]))
         ELSE IF pathParts[i] # requestParts[i]
              THEN [match |-> FALSE, params |-> params]
              ELSE MatchParts_CaptureNeedsText(pathParts, requestParts, i + 1, params)

\* the inner loop of find over one candidate's pathParts, from index i on:
\* a capture binds, a literal must be equal or the candidate is rejected
RECURSIVE MatchParts(_, _, _, _)
MatchParts(pathParts, requestParts, i, params) ==
    IF i > Len(pathParts) THEN [match |-> TRUE, params |-> params]
    ELSE IF HasPrefixColon(pathParts[i])
         THEN MatchParts(pathParts, requestParts, i + 1,
                         MapPut(params, DropFirst(pathParts[i]), requestParts[i]))
         ELSE IF pathParts[i] # requestParts[i]
              THEN [match |-> FALSE, params |-> params]
              ELSE MatchParts(pathParts, requestParts, i + 1, params)

\* ScanParamRoutes going on after a match, so that the last match is returned
RECURSIVE ScanParamRoutes_LastMatch(_, _, _)
ScanParamRoutes_LastMatch(routes, requestParts, i) ==
    IF i > Len(routes)
    THEN [route |-> NoRoute, params |-> EmptyMap, paramsNil |-> TRUE, index |-> 0]
    ELSE LET later == ScanParamRoutes_LastMatch(routes, requestParts, i + 1)
             m     == MatchParts(routes[i].pathParts, requestParts, 1, EmptyMap)
         IN  IF ~later.route.nil THEN later
             ELSE IF Len(routes[i].pathParts) = Len(requestParts) /\ m.match
                  THEN [route |-> routes[i].route, params |-> m.params,
                        paramsNil |-> FALSE, index |-> i]
                  ELSE later

\* ScanParamRoutes with one params map made before the loop and used for every
\* candidate, from index i on with the map as the candidates before left it
RECURSIVE ScanSharingParams(_, _, _, _)
ScanSharingParams(routes, requestParts, i, params) ==
    IF i > Len(routes)
    THEN [route |-> NoRoute, params |-> EmptyMap, paramsNil |-> TRUE, index |-> 0]
    ELSE IF Len(routes[i].pathParts) # Len(requestParts)
         THEN ScanSharingParams(routes, requestParts, i + 1, params)
         ELSE LET m == MatchParts(routes[i].pathParts, requestParts, 1, params)
              IN  IF m.match
                  THEN [route |-> routes[i].route, params |-> m.params,
                        paramsNil |-> FALSE, index |-> i]
                  ELSE ScanSharingParams(routes, requestParts, i + 1, m.params)

ScanParamRoutes_SharedParams(routes, requestParts, i) ==
    ScanSharingParams(routes, requestParts, i, EmptyMap)

\* the outer loop of find over r.paramRoutes[method], from index i on
RECURSIVE ScanParamRoutes(_, _, _)
ScanParamRoutes(routes, requestParts, i) ==
    IF i > Len(routes)
    THEN [route |-> NoRoute, params |-> EmptyMap, paramsNil |-> TRUE, index |-> 0]
    ELSE IF Len(routes[i].pathParts) # Len(requestParts)
         THEN ScanParamRoutes(routes, requestParts, i + 1)
         ELSE LET m == MatchParts(routes[i].pathParts, requestParts, 1, EmptyMap)
              IN  IF m.match
                  THEN [route |-> routes[i].route, params |-> m.params,
                        paramsNil |-> FALSE, index |-> i]
                  ELSE ScanParamRoutes(routes, requestParts, i + 1)

\* findIn with the parameterized routes scanned before the static lookup
findIn_ParamFirst(st, pr, method, path) ==
    LET scan == ScanParamRoutes(IF method \in DOMAIN pr THEN pr[method] ELSE <<>>,
                                Split(Trim(path)), 1)
    IN  IF ~scan.route.nil THEN scan
        ELSE IF method \in DOMAIN st /\ path \in DOMAIN st[method]
             THEN [route |-> st[method][path], params |-> EmptyMap,
                   paramsNil |-> TRUE, index |-> 0]
             ELSE scan

\* findIn, but a path not found under the request's method is looked up under
\* the other methods
findIn_AnyMethod(st, pr, method, path) ==
    LET lookup(m) ==
            IF m \in DOMAIN st /\ path \in DOMAIN st[m]
            THEN [route |-> st[m][path], params |-> EmptyMap, paramsNil |-> TRUE, index |-> 0]
            ELSE ScanParamRoutes(IF m \in DOMAIN pr THEN pr[m] ELSE <<>>,
                                 Split(Trim(path)), 1)
        others == {m \in DOMAIN st : ~lookup(m).route.nil}
    IN  IF ~lookup(method).route.nil \/ others = {} THEN lookup(method)
        ELSE lookup(CHOOSE m \in others : TRUE)

\* findIn, but the static lookup ignores leading and trailing slashes too
findIn_StaticTrimmed(st, pr, method, path) ==
    LET keys == IF method \in DOMAIN st
                THEN {k \in DOMAIN st[method] : Trim(k) = Trim(path)}
                ELSE {}
    IN  IF keys # {}
        THEN [route |-> st[method][CHOOSE k \in keys : TRUE], params |-> EmptyMap,
              paramsNil |-> TRUE, index |-> 0]
        ELSE ScanParamRoutes(IF method \in DOMAIN pr THEN pr[method] ELSE <<>>,
                             Split(Trim(path)), 1)

\* Router.find on a route table (st, pr)
findIn(st, pr, method, path) ==
    IF method \in DOMAIN st /\ path \in DOMAIN st[method]
    THEN [route |-> st[method][path], params |-> EmptyMap, paramsNil |-> TRUE, index |-> 0]
    ELSE ScanParamRoutes(IF method \in DOMAIN pr THEN pr[method] ELSE <<>>,
                         Split(Trim(path)), 1)

\* Router.find on the router of the engine
find(method, path) == findIn(staticRoutes, paramRoutes, method, path)

\* the route value addWithMiddleware builds
NewRoute(handler, mws) == [handler |-> handler, middlewares |-> mws, nil |-> FALSE]

\* AddStatic that keeps an entry already there
AddStatic_KeepFirst(st, method, path, rt) ==
    IF path \in DOMAIN st[method] THEN st
    ELSE [st EXCEPT ![method] = (path :> rt) @@ st[method]]

\* addWithMiddleware, static branch: r.staticRoutes[method][path] = rt
AddStatic(st, method, path, rt) ==
    [st EXCEPT ![method] =
        [p \in (DOMAIN st[method]) \cup {path} |-> IF p = path THEN rt ELSE st[method][p]]]

\* addWithMiddleware, param branch: append to r.paramRoutes[method]
AddParam(pr, method, path, rt) ==
    [pr EXCEPT ![method] = Append(pr[method], [pathParts |-> Split(Trim(path)), route |-> rt])]

-----------------------------------------------------------------------------
(* Go slices of Middleware *)

\* cap(s)
Cap(h, s) == IF s.arr = NilAddr THEN 0 ELSE Len(h[s.arr])

\* the elements s[0:len(s)]
Elems(h, s) == IF s.arr = NilAddr THEN <<>> ELSE SubSeq(h[s.arr], 1, s.len)

\* n zero elements
Zeros(n) == [i \in 1..n |-> NilEntry]

\* the capacities the allocator hands out for arrays of 8-byte elements
\* (its size classes 8, 16, 24, 32, 48, 64, 80, ... 256 bytes)
SizeClasses == {1, 2, 3, 4, 6, 8, 10, 12, 14, 16, 18, 20, 22, 24, 26, 28, 30, 32}

\* the capacity append allocates when newLen elements do not fit in oldCap:
\* newLen itself when that is more than twice the old capacity, else twice the
\* old capacity, rounded up to a size class
GrowCap(oldCap, newLen) ==
    LET want == IF newLen > 2 * oldCap THEN newLen ELSE 2 * oldCap
    IN  CHOOSE c \in SizeClasses :
            /\ c >= want
            /\ \A d \in SizeClasses : d >= want => c <= d

\* a new array in the heap.  Its address is the name of the first element
\* written to it (every element is first written to exactly one new array), so
\* that an address does not depend on the order of unrelated allocations.
Alloc(h, first, array) == (first.id :> array) @@ h

\* append(s, elems...): the new heap and the slice returned.  With room in the
\* backing array the elements are written in place, behind s's length, and the
\* array is shared with s; without room a new array is allocated.
GoAppend(h, s, elems) ==
    LET n == Len(elems)
        newLen == s.len + n
    IN  IF n = 0 THEN [heap |-> h, slice |-> s]
        ELSE IF newLen <= Cap(h, s)
        THEN [heap  |-> [h EXCEPT ![s.arr] =
                            [i \in 1..Len(h[s.arr]) |->
                                IF i > s.len /\ i <= newLen THEN elems[i - s.len]
                                ELSE h[s.arr][i]]],
              slice |-> [arr |-> s.arr, len |-> newLen]]
        ELSE LET c == GrowCap(Cap(h, s), newLen)
             IN  [heap  |-> Alloc(h, elems[1], Elems(h, s) \o elems \o Zeros(c - newLen)),
                  slice |-> [arr |-> elems[1].id, len |-> newLen]]

\* the slice a variadic parameter m ...Middleware holds when the caller lists
\* the arguments: nil for none, else a new array of exactly that many
Variadic(h, elems) ==
    IF elems = <<>> THEN [heap |-> h, slice |-> NilSlice]
    ELSE [heap |-> Alloc(h, elems[1], elems), slice |-> [arr |-> elems[1].id, len |-> Len(elems)]]

-----------------------------------------------------------------------------
(* Registration *)

\* wrapHandlerAsMiddleware(h), as a value
wrapHandlerAsMiddleware(h) == [kind |-> "wrap", id |-> h]

\* addRoute's loop: routeMiddlewares, one wrapper per non-final handler.  Its
\* backing array is referenced by nothing once addRoute returns, so it is kept
\* as a value.
routeMiddlewaresOf(handlers) ==
    [i \in 1..(Len(handlers) - 1) |-> wrapHandlerAsMiddleware(handlers[i])]

\* allMiddlewares := append(middlewares, routeMiddlewares...)
allMiddlewaresOf(h, mws, handlers) == GoAppend(h, mws, routeMiddlewaresOf(handlers))

\* Engine.Use(m...)
Use(ms) ==
    /\ LET a == GoAppend(heap, middlewares, ms)
       IN  /\ heap' = a.heap
           /\ middlewares' = a.slice
    /\ calls' = calls + 1
    /\ last' = NoRequest
    /\ UNCHANGED <<groups, staticRoutes, paramRoutes, errorHandler, regLog, handlerGiven,
                   templates, devMode, ctx, ret, server>>

\* Engine.Group(prefix, m...)
EngineGroup(prefix, ms) ==
    /\ LET v == Variadic(heap, ms)
       IN  /\ heap' = v.heap
           /\ groups' = Append(groups, [prefix |-> prefix, middlewares |-> v.slice,
                                        parent |-> 0, given |-> ms])
    /\ calls' = calls + 1
    /\ last' = NoRequest
    /\ UNCHANGED <<middlewares, staticRoutes, paramRoutes, errorHandler, regLog, handlerGiven,
                   templates, devMode, ctx, ret, server>>

\* RouterGroup.Group(prefix, m...) on groups[g]
GroupGroup(g, prefix, ms) ==
    /\ LET a == GoAppend(heap, groups[g].middlewares, ms)
       IN  /\ heap' = a.heap
           /\ groups' = Append(groups, [prefix |-> groups[g].prefix \o prefix,
                                        middlewares |-> a.slice,
                                        parent |-> g,
                                        given |-> groups[g].given \o ms])
    /\ calls' = calls + 1
    /\ last' = NoRequest
    /\ UNCHANGED <<middlewares, staticRoutes, paramRoutes, errorHandler, regLog, handlerGiven,
                   templates, devMode, ctx, ret, server>>

\* RouterGroup.Use(m...) on groups[g]
GroupUse(g, ms) ==
    /\ LET a == GoAppend(heap, groups[g].middlewares, ms)
       IN  /\ heap' = a.heap
           /\ groups' = [groups EXCEPT ![g].middlewares = a.slice,
                                       ![g].given = @ \o ms]
    /\ calls' = calls + 1
    /\ last' = NoRequest
    /\ UNCHANGED <<middlewares, staticRoutes, paramRoutes, errorHandler, regLog, handlerGiven,
                   templates, devMode, ctx, ret, server>>

\* Router.addWithMiddleware(method, path, handler, middlewares)
addWithMiddleware(method, path, handler, mws) ==
    LET rt == NewRoute(handler, mws)
    IN  IF ~hasParams(path)
        THEN /\ staticRoutes' = AddStatic(staticRoutes, method, path, rt)
             /\ UNCHANGED paramRoutes
        ELSE /\ paramRoutes' = AddParam(paramRoutes, method, path, rt)
             /\ UNCHANGED staticRoutes

\* RouterGroup.GET / POST / PUT / DELETE on groups[g] (Engine.GET for g = 1),
\* with at least one handler: addRoute, then addWithMiddleware
Register(g, method, path, handlers) ==
    /\ handlers # <<>>
    /\ LET fullPath == groups[g].prefix \o path
           final    == handlers[Len(handlers)]
           a        == allMiddlewaresOf(heap, groups[g].middlewares, handlers)
       IN  /\ heap' = a.heap
           /\ addWithMiddleware(method, fullPath, final, a.slice)
           /\ regLog' = Append(regLog,
                  [group |-> g, method |-> method, rel |-> path, path |-> fullPath,
                   handlers |-> handlers,
                   groupMws |-> groups[g].given,
                   captured |-> Elems(a.heap, a.slice)])
    /\ calls' = calls + 1
    /\ last' = NoRequest
    /\ UNCHANGED <<middlewares, groups, errorHandler, handlerGiven,
                   templates, devMode, ctx, ret, server>>

\* Engine.SetErrorHandler(h)
SetErrorHandler(h) ==
    /\ errorHandler' = h
    /\ handlerGiven' = h
    /\ calls' = calls + 1
    /\ last' = NoRequest
    /\ UNCHANGED <<heap, middlewares, groups, staticRoutes, paramRoutes, regLog,
                   templates, devMode, ctx, ret, server>>

-----------------------------------------------------------------------------
(* Chain assembly and execution *)

\* the HandlerFunc a route's terminal handler is
HandlerVal(id) == [kind |-> "handler", id |-> id]

\* m(h): the HandlerFunc the Middleware value m returns for next = h
Apply(m, h) == [kind |-> "closure", mw |-> m, next |-> h]

\* for i := len(ms) - 1; i >= 0; i-- { h = ms[i](h) }, from index i down
RECURSIVE FoldChain(_, _, _)
FoldChain(ms, i, h) ==
    IF i < 1 THEN h ELSE FoldChain(ms, i - 1, Apply(ms[i], h))

\* Engine.buildChain(final) over the global middleware ms
buildChain(ms, final) == FoldChain(ms, Len(ms), final)

\* the error value a stage creates when it fails; "" is the nil error
NilErr == <<>>

\* What user code does when called.  A handler returns nil ("ok") or an error
\* ("fail"); it may first send a response ("write", "writefail"), and it may
\* panic, before or after sending one ("panic", "writepanic").  A middleware
\* calls next and returns what next returned ("next"), calls next and returns
\* nil ("swallow"), returns nil without calling next ("abort"), returns an error
\* without calling next ("fail"), or panics without calling next ("panic").
\* The handler Static registers answers with the file ("serve").
HandlerBehaviours == {"ok", "fail"}
MwBehaviours == {"next", "swallow", "abort", "fail"}
WritingBehaviours == {"write", "writefail", "writepanic"}
FailingBehaviours == {"fail", "writefail"}
PanickingBehaviours == {"panic", "writepanic"}

\* Logger(), Recover(): the Middleware values the constructors return
Logger(g, k) == [kind |-> "logger", id |-> <<"L", g, k>>]
Recover(g, k) == [kind |-> "recover", id |-> <<"R", g, k>>]

\* a handler's user code: what it sends, returns, and whether it panics
RunHandler(id, b) ==
    [trace |-> <<[ev |-> "run", id |-> id, err |-> NilErr]>>,
     err   |-> IF b \in FailingBehaviours THEN id ELSE NilErr,
     out   |-> IF b \in WritingBehaviours THEN <<Text(StatusOK, <<id>>)>>
               ELSE IF b = "serve" THEN <<ServeFile(id)>>
               ELSE <<>>,
     panic |-> b \in PanickingBehaviours]

\* Recover's deferred function, but it sends nothing
RecoverResult_Silent(id, inner) ==
    [trace |-> <<[ev |-> "pre", id |-> id, err |-> NilErr]>> \o inner.trace
                  \o <<[ev |-> "post", id |-> id, err |-> inner.err]>>,
     err   |-> IF inner.panic THEN NilErr ELSE inner.err,
     out   |-> inner.out,
     panic |-> FALSE]

\* Recover's closure once next returned or panicked: the deferred function
\* sends 500 if recover() gave a value, and the closure then returns nil
RecoverResult(id, inner) ==
    [trace |-> <<[ev |-> "pre", id |-> id, err |-> NilErr]>> \o inner.trace
                  \o <<[ev |-> "post", id |-> id, err |-> inner.err]>>,
     err   |-> IF inner.panic THEN NilErr ELSE inner.err,
     out   |-> IF inner.panic
               THEN inner.out \o <<JSON(StatusInternalServerError,
                                       serverError(<<"internal server error">>))>>
               ELSE inner.out,
     panic |-> FALSE]

\* Logger's closure once next returned or panicked: it returns a non-nil error
\* at once, and prints its line otherwise
LoggerResult(id, inner) ==
    [trace |-> <<[ev |-> "pre", id |-> id, err |-> NilErr]>> \o inner.trace
                  \o (IF inner.panic THEN <<>>
                      ELSE <<[ev |-> "post", id |-> id, err |-> inner.err]>>),
     err   |-> inner.err,
     out   |-> IF inner.panic \/ inner.err # NilErr THEN inner.out
               ELSE inner.out \o <<Printf>>,
     panic |-> inner.panic]

\* Call, but a wrapped handler's adapter calls next whatever h returned
RECURSIVE Call_WrapAlwaysCallsNext(_, _)
Call_WrapAlwaysCallsNext(hf, beh) ==
    IF hf.kind = "handler"
    THEN RunHandler(hf.id, beh[hf.id])
    ELSE IF hf.mw.kind = "wrap"
    THEN LET first == Call_WrapAlwaysCallsNext(HandlerVal(hf.mw.id), beh)
             rest  == Call_WrapAlwaysCallsNext(hf.next, beh)
         IN  IF first.panic THEN first
             ELSE [trace |-> first.trace \o rest.trace,
                   err   |-> IF first.err # NilErr THEN first.err ELSE rest.err,
                   out   |-> first.out \o rest.out,
                   panic |-> rest.panic]
    ELSE IF hf.mw.kind = "mw"
    THEN LET pre == <<[ev |-> "pre", id |-> hf.mw.id, err |-> NilErr]>>
             stop(e, p) == [trace |-> pre, err |-> e, out |-> <<>>, panic |-> p]
         IN  CASE beh[hf.mw.id] = "abort" -> stop(NilErr, FALSE)
               [] beh[hf.mw.id] = "fail"  -> stop(hf.mw.id, FALSE)
               [] beh[hf.mw.id] = "panic" -> stop(NilErr, TRUE)
               [] OTHER ->
                    LET inner == Call_WrapAlwaysCallsNext(hf.next, beh)
                        post  == <<[ev |-> "post", id |-> hf.mw.id, err |-> inner.err]>>
                    IN  IF inner.panic
                        THEN [inner EXCEPT !.trace = pre \o inner.trace]
                        ELSE [trace |-> pre \o inner.trace \o post,
                              err   |-> IF beh[hf.mw.id] = "swallow" THEN NilErr ELSE inner.err,
                              out   |-> inner.out,
                              panic |-> FALSE]
    ELSE IF hf.mw.kind = "logger"
    THEN LoggerResult(hf.mw.id, Call_WrapAlwaysCallsNext(hf.next, beh))
    ELSE IF hf.mw.kind = "recover"
    THEN RecoverResult(hf.mw.id, Call_WrapAlwaysCallsNext(hf.next, beh))
    ELSE [trace |-> <<[ev |-> "panic", id |-> <<>>, err |-> NilErr]>>, err |-> NilErr,
          out |-> <<>>, panic |-> TRUE]

\* calling a HandlerFunc: the events in order, the error returned, what was
\* sent and printed in order, and whether the call panicked instead of returning
RECURSIVE Call(_, _)
Call(hf, beh) ==
    IF hf.kind = "handler"
    THEN RunHandler(hf.id, beh[hf.id])
    ELSE IF hf.mw.kind = "wrap"
    THEN \* wrapHandlerAsMiddleware: err := h(c); then next(c)
         LET first == Call(HandlerVal(hf.mw.id), beh)
         IN  IF first.err # NilErr \/ first.panic THEN first
             ELSE LET rest == Call(hf.next, beh)
                  IN  [trace |-> first.trace \o rest.trace, err |-> rest.err,
                       out |-> first.out \o rest.out, panic |-> rest.panic]
    ELSE IF hf.mw.kind = "mw"
    THEN LET pre == <<[ev |-> "pre", id |-> hf.mw.id, err |-> NilErr]>>
             stop(e, p) == [trace |-> pre, err |-> e, out |-> <<>>, panic |-> p]
         IN  CASE beh[hf.mw.id] = "abort" -> stop(NilErr, FALSE)
               [] beh[hf.mw.id] = "fail"  -> stop(hf.mw.id, FALSE)
               [] beh[hf.mw.id] = "panic" -> stop(NilErr, TRUE)
               [] OTHER ->
                    LET inner == Call(hf.next, beh)
                        post  == <<[ev |-> "post", id |-> hf.mw.id, err |-> inner.err]>>
                    IN  IF inner.panic
                        THEN \* the panic unwinds through this frame
                             [inner EXCEPT !.trace = pre \o inner.trace]
                        ELSE [trace |-> pre \o inner.trace \o post,
                              err   |-> IF beh[hf.mw.id] = "swallow" THEN NilErr ELSE inner.err,
                              out   |-> inner.out,
                              panic |-> FALSE]
    ELSE IF hf.mw.kind = "logger"
    THEN LoggerResult(hf.mw.id, Call(hf.next, beh))
    ELSE IF hf.mw.kind = "recover"
    THEN RecoverResult(hf.mw.id, Call(hf.next, beh))
    ELSE \* a nil func value: the call panics
         [trace |-> <<[ev |-> "panic", id |-> <<>>, err |-> NilErr]>>, err |-> NilErr,
          out |-> <<>>, panic |-> TRUE]

\* the ids of the stages a list of middleware and a handler are made of
StageIds(ms, handler) == {ms[i].id : i \in 1..Len(ms)} \cup {handler}

\* http.NotFound(w, r), on the writer handle was given
NotFound ==
    [op |-> "respond", code |-> StatusNotFound, counted |-> FALSE,
     body |-> [ctype |-> "text/plain; charset=utf-8", value |-> <<"404 page not found">>,
               nl |-> TRUE]]

\* defaultErrorHandler, but it answers 500
defaultErrorHandler_InternalError(err) == <<JSON(StatusInternalServerError, serverError(err))>>

\* defaultErrorHandler: c.JSON(http.StatusBadRequest, serverError{Error: err.Error()})
defaultErrorHandler(err) == <<JSON(StatusBadRequest, serverError(err))>>

\* e.errorHandler(ctx, err): what the handler in force sends
CallErrorHandler(err) == IF errorHandler = "default" THEN defaultErrorHandler(err) ELSE <<>>

\* the codes of the WriteHeader calls among the output events o
RECURSIVE CodesOf(_)
CodesOf(o) ==
    IF o = <<>> THEN <<>>
    ELSE (IF Head(o).op = "respond" THEN <<Head(o).code>> ELSE <<>>) \o CodesOf(Tail(o))

\* the record of a dispatched request: f is what find returned, r what the
\* chain did, eh the error handler calls made
Dispatch(method, path, beh, f, ms, gs, r, eh) ==
    LET sent == IF eh = <<>> THEN <<>> ELSE CallErrorHandler(eh[1].err)
    IN  [method |-> method, path |-> path, notFound |-> FALSE,
         written |-> CodesOf(r.out \o sent),
         handler |-> f.route.handler, chain |-> ms, globals |-> gs,
         params |-> f.params, paramsNil |-> f.paramsNil,
         beh |-> beh, trace |-> r.trace, err |-> r.err,
         handled |-> eh, out |-> r.out \o sent, panicked |-> r.panic]

\* what a request is dispatched over: the route table and the middleware
\* lists of the engine, the groups and the routes
tables == <<heap, middlewares, groups, staticRoutes, paramRoutes>>

\* handle, but the error handler is called with whatever the chain returned
handle_ErrorHandlerAlways(method, path, beh) ==
    /\ LET f == find(method, path)
       IN  IF f.route.nil
           THEN last' = [NoRequest EXCEPT !.method = method, !.path = path, !.notFound = TRUE,
                                          !.written = <<StatusNotFound>>, !.out = <<NotFound>>]
           ELSE LET ms     == Elems(heap, f.route.middlewares)
                    gs     == Elems(heap, middlewares)
                    h      == FoldChain(ms, Len(ms), HandlerVal(f.route.handler))
                    final  == buildChain(gs, h)
                    r      == Call(final, beh)
                IN  last' = Dispatch(method, path, beh, f, ms, gs, r,
                                     <<[by |-> errorHandler, err |-> r.err]>>)
    /\ UNCHANGED tables

\* handle, but a request no route matches is reported to the error handler
handle_MissToErrorHandler(method, path, beh) ==
    /\ LET f == find(method, path)
       IN  IF f.route.nil
           THEN last' = [NoRequest EXCEPT !.method = method, !.path = path, !.notFound = TRUE,
                                          !.written = CodesOf(CallErrorHandler(<<"not found">>)),
                                          !.out = CallErrorHandler(<<"not found">>),
                                          !.handled = <<[by |-> errorHandler, err |-> <<"not found">>]>>]
           ELSE LET ms     == Elems(heap, f.route.middlewares)
                    gs     == Elems(heap, middlewares)
                    h      == FoldChain(ms, Len(ms), HandlerVal(f.route.handler))
                    final  == buildChain(gs, h)
                    r      == Call(final, beh)
                IN  last' = Dispatch(method, path, beh, f, ms, gs, r,
                                     IF r.err # NilErr /\ ~r.panic
                                     THEN <<[by |-> errorHandler, err |-> r.err]>>
                                     ELSE <<>>)
    /\ UNCHANGED tables

\* handle, but it keeps the route find returned under the request's path in
\* the static table, to find it by exact lookup the next time
handle_CachesLookup(method, path, beh) ==
    /\ LET f == find(method, path)
       IN  IF f.route.nil
           THEN /\ last' = [NoRequest EXCEPT !.method = method, !.path = path,
                                             !.notFound = TRUE,
                                             !.written = <<StatusNotFound>>,
                                             !.out = <<NotFound>>]
                /\ UNCHANGED staticRoutes
           ELSE LET ms     == Elems(heap, f.route.middlewares)
                    gs     == Elems(heap, middlewares)
                    h      == FoldChain(ms, Len(ms), HandlerVal(f.route.handler))
                    final  == buildChain(gs, h)
                    r      == Call(final, beh)
                IN  /\ last' = Dispatch(method, path, beh, f, ms, gs, r,
                                        IF r.err # NilErr /\ ~r.panic
                                        THEN <<[by |-> errorHandler, err |-> r.err]>>
                                        ELSE <<>>)
                    /\ staticRoutes' = AddStatic(staticRoutes, method, path, f.route)
    /\ UNCHANGED <<heap, middlewares, groups, paramRoutes>>

\* Engine.handle for one request; beh says what the user code of each stage does
handle(method, path, beh) ==
    /\ LET f == find(method, path)
       IN  IF f.route.nil
           THEN \* http.NotFound(w, r); return
                last' = [NoRequest EXCEPT !.method = method, !.path = path, !.notFound = TRUE,
                                          !.written = <<StatusNotFound>>, !.out = <<NotFound>>]
           ELSE LET ms     == Elems(heap, f.route.middlewares)
                    gs     == Elems(heap, middlewares)
                    h      == FoldChain(ms, Len(ms), HandlerVal(f.route.handler))
                    final  == buildChain(gs, h)
                    r      == Call(final, beh)
                IN  \* if err := final(ctx); err != nil { e.errorHandler(ctx, err) }
                    last' = Dispatch(method, path, beh, f, ms, gs, r,
                                     IF r.err # NilErr /\ ~r.panic
                                     THEN <<[by |-> errorHandler, err |-> r.err]>>
                                     ELSE <<>>)
    \* find, the two loops and buildChain assign to no field of the engine,
    \* the router or a route
    /\ UNCHANGED tables

-----------------------------------------------------------------------------
(* Inputs *)

\* Every function value a caller passes is a different one, named after where
\* it is passed: the k-th global middleware, the middleware a group gets at
\* position k of its list, the j-th handler of the r-th registration.
FreshMws(tag, g, from, n) == [i \in 1..n |-> Mw(<<tag, g, from + i>>)]

FreshHandlers(r, n) == [j \in 1..n |-> <<"H", r, j>>]

\* how many middleware one Engine.Group call is given (a Use call is given one)
ArgCounts == {0, 1, 2}

\* how many middleware one RouterGroup.Group call is given
NestedArgCounts == {0, 1}

\* how many handlers one registration is given: all but the last are non-final
HandlerCounts == {1, 2, 3}

\* the prefix the program gives the group it creates as groups[g]
PrefixOf(g) == <<"/", <<"", "a", "b", "c", "d", "e", "f", "g", "h">>[g]>>

\* at most this many groups are held, rootGroup included
GroupSlots == 1..4

\* the path of the program's r-th registration: static and parameterized in turn
PathOf(r) == IF r % 2 = 1 THEN <<"/", "p">> ELSE <<"/", ":", "x">>

\* a request path for a registered pattern: every ":" replaced by "q"
Concretize(path) == [i \in 1..Len(path) |-> IF path[i] = ":" THEN "q" ELSE path[i]]

\* a path with more segments than any registered pattern has
DeepPath == <<"/", "z", "/", "z", "/", "z", "/", "z", "/", "z", "/", "z">>

\* the request paths tried: one per registration, and one that nothing was
\* registered for
RequestPaths == {Concretize(regLog[i].path) : i \in 1..Len(regLog)} \cup {DeepPath}

\* What the stages (in chain order) do: all cooperate, or one stage d deviates
\* (a handler fails, a middleware fails or aborts) and at most one middleware
\* entered before d swallows what comes back.
Behaviours(stages) ==
    LET ids == {stages[i] : i \in 1..Len(stages)}
        default(x) == IF x[1] = "H" THEN "ok" ELSE "next"
        isMw(i) == stages[i][1] # "H"
    IN  { [x \in ids |-> default(x)] }
        \cup
        { [x \in ids |->
              IF x = stages[d] THEN db
              ELSE IF s > 0 /\ x = stages[s] THEN "swallow"
              ELSE default(x)] :
          <<d, db, s>> \in { t \in (1..Len(stages)) \X {"fail", "abort"} \X (0..Len(stages)) :
                              /\ t[3] < t[1]
                              /\ t[3] > 0 => isMw(t[3])
                              /\ t[2] = "abort" => isMw(t[1]) } }

-----------------------------------------------------------------------------
(* The engine after New() *)

EngineNew ==
    /\ heap = EmptyMap
    /\ middlewares = NilSlice
    /\ groups = <<[prefix |-> <<>>, middlewares |-> NilSlice, parent |-> 0, given |-> <<>>]>>
    /\ staticRoutes = [m \in Methods |-> EmptyMap]
    /\ paramRoutes = [m \in Methods |-> <<>>]
    /\ errorHandler = "default"
    /\ regLog = <<>>
    /\ calls = 0
    /\ handlerGiven = "none"
    /\ last = NoRequest
    /\ templates = NilTemplates
    /\ devMode = FALSE
    /\ server = NoServer

\* an engine on which no helper of a Context has been called
Init ==
    /\ EngineNew
    /\ ctx = NoContext
    /\ ret = NoResult

(* Steps of a program that configures an engine through groups and serves *)

UseStep ==
    /\ last = NoRequest
    /\ calls < MaxCalls
    /\ Use(FreshMws("G", 0, middlewares.len, 1))

EngineGroupStep ==
    /\ last = NoRequest
    /\ calls < MaxCalls
    /\ Len(groups) + 1 \in GroupSlots
    /\ \E n \in ArgCounts :
        EngineGroup(PrefixOf(Len(groups) + 1), FreshMws("M", Len(groups) + 1, 0, n))

GroupGroupStep ==
    /\ last = NoRequest
    /\ calls < MaxCalls
    /\ Len(groups) + 1 \in GroupSlots
    /\ \E g \in 2..Len(groups), n \in NestedArgCounts :
        GroupGroup(g, PrefixOf(Len(groups) + 1),
                   FreshMws("M", Len(groups) + 1, groups[g].middlewares.len, n))

GroupUseStep ==
    /\ last = NoRequest
    /\ calls < MaxCalls
    /\ \E g \in 2..Len(groups) :
        GroupUse(g, FreshMws("M", g, groups[g].middlewares.len, 1))

RegisterStep ==
    /\ last = NoRequest
    /\ calls < MaxCalls
    /\ \E g \in 1..Len(groups), n \in HandlerCounts :
        Register(g, "GET", PathOf(Len(regLog) + 1), FreshHandlers(Len(regLog) + 1, n))

SetErrorHandlerStep ==
    /\ last = NoRequest
    /\ calls < MaxCalls
    /\ errorHandler = "default"
    /\ SetErrorHandler("custom")

ServeStep ==
    /\ last = NoRequest
    /\ \E path \in RequestPaths :
        LET f      == find("GET", path)
            mws    == Elems(heap, middlewares) \o Elems(heap, f.route.middlewares)
            stages == IF f.route.nil THEN <<>>
                      ELSE [i \in 1..Len(mws) |-> mws[i].id] \o <<f.route.handler>>
        IN  \E beh \in Behaviours(stages) : handle("GET", path, beh)
    /\ UNCHANGED <<errorHandler, regLog, calls, handlerGiven,
                   templates, devMode, ctx, ret, server>>

\* the chain has returned and the request's Context is dropped
RequestDone ==
    /\ last # NoRequest
    /\ last' = NoRequest
    /\ UNCHANGED <<heap, middlewares, groups, staticRoutes, paramRoutes,
                   errorHandler, regLog, calls, handlerGiven,
                   templates, devMode, ctx, ret, server>>

Next ==
    \/ UseStep
    \/ EngineGroupStep
    \/ GroupGroupStep
    \/ GroupUseStep
    \/ RegisterStep
    \/ SetErrorHandlerStep
    \/ ServeStep
    \/ RequestDone

Spec == Init /\ [][Next]_vars

-----------------------------------------------------------------------------
(* Steps of a program that uses the engine as a plain router *)

\* the route patterns such a program registers with GET
RoutePatterns ==
    { <<"/">>,
      <<"/", "a">>,
      <<"/", "a", "/">>,
      <<"/", "a", ":", "b">>,
      <<"/", ":", "x">>,
      <<"/", ":", "y">>,
      <<"/", "a", "/", ":", "x">>,
      <<"/", ":", "y", "/", "b">>,
      <<"/", ":", "x", "/", ":", "y">>,
      <<"/", ":", "x", "/", ":", "x">>,
      <<"/", "a", "/", ":", "x", "/", "b">> }

\* and with POST
PostPatterns == { <<"/", "a">>, <<"/", ":", "x">> }

RouterInputs == ({"GET"} \X RoutePatterns) \cup ({"POST"} \X PostPatterns)

\* the request paths looked up
LookupPaths ==
    { <<"/">>,
      <<"/", "a">>,
      <<"/", "A">>,
      <<"/", "b">>,
      <<"/", "a", "/">>,
      <<"/", "a", ":", "b">>,
      <<"/", "a", "/", "b">>,
      <<"/", "A", "/", "b">>,
      <<"/", "a", "/", "b", "/">>,
      <<"/", "b", "/", "a">>,
      <<"/", "a", "/", "b", "/", "a">>,
      <<"/", "/", "a">>,
      <<"/", "a", "/", "/", "b">>,
      <<"a">> }

Lookups == Methods \X LookupPaths

RouterRegisterStep ==
    /\ last = NoRequest
    /\ calls < MaxRouterRoutes
    /\ \E in \in RouterInputs :
        Register(1, in[1], in[2], FreshHandlers(Len(regLog) + 1, 1))

RouterServeStep ==
    /\ last = NoRequest
    /\ \E lk \in Lookups :
        LET f == find(lk[1], lk[2])
        IN  handle(lk[1], lk[2],
                   IF f.route.nil THEN EmptyMap ELSE (f.route.handler :> "ok"))
    /\ UNCHANGED <<errorHandler, regLog, calls, handlerGiven,
                   templates, devMode, ctx, ret, server>>

NextRouter ==
    \/ RouterRegisterStep
    \/ RouterServeStep
    \/ RequestDone

SpecRouter == Init /\ [][NextRouter]_vars

-----------------------------------------------------------------------------
(* Steps of a program that installs Logger and Recover *)

\* What the stages do when user code may also send a response or panic: all
\* cooperate, or one stage d deviates, and then at most one handler entered
\* before d sends a response and returns nil.
BuiltinBehaviours(stages) ==
    LET ids == {stages[i] : i \in 1..Len(stages)}
        default(x) == IF x[1] = "H" THEN "ok" ELSE "next"
        isHandler(i) == stages[i][1] = "H"
        isUserMw(i) == stages[i][1] \in {"G", "M"}
        deviations(i) == IF isHandler(i)
                         THEN {"fail", "write", "writefail", "panic", "writepanic"}
                         ELSE IF isUserMw(i) THEN {"fail", "abort", "swallow", "panic"}
                         ELSE {}
    IN  { [x \in ids |-> default(x)] }
        \cup
        { [x \in ids |->
              IF x = stages[t[1]] THEN t[2]
              ELSE IF t[3] > 0 /\ x = stages[t[3]] THEN "write"
              ELSE default(x)] :
          t \in { u \in (1..Len(stages)) \X {"fail", "write", "writefail", "panic",
                                              "writepanic", "abort", "swallow"}
                                         \X (0..Len(stages)) :
                      /\ u[2] \in deviations(u[1])
                      /\ u[3] < u[1]
                      /\ u[3] > 0 => isHandler(u[3]) } }

\* app.Use(mows.Logger()), app.Use(mows.Recover()), app.Use(m)
BuiltinUseStep ==
    /\ last = NoRequest
    /\ calls < MaxBuiltinCalls
    /\ \E m \in {Logger(0, middlewares.len + 1), Recover(0, middlewares.len + 1),
                 Mw(<<"G", 0, middlewares.len + 1>>)} :
        Use(<<m>>)

\* app.Group(prefix), app.Group(prefix, mows.Recover())
BuiltinGroupStep ==
    /\ last = NoRequest
    /\ calls < MaxBuiltinCalls
    /\ Len(groups) + 1 \in GroupSlots
    /\ \E ms \in {<<>>, <<Recover(Len(groups) + 1, 1)>>} :
        EngineGroup(PrefixOf(Len(groups) + 1), ms)

\* app.GET(path, h...), g.GET(path, h...)
BuiltinRegisterStep ==
    /\ last = NoRequest
    /\ calls < MaxBuiltinCalls
    /\ \E g \in 1..Len(groups), n \in {1, 2} :
        Register(g, "GET", PathOf(Len(regLog) + 1), FreshHandlers(Len(regLog) + 1, n))

\* app.SetErrorHandler(h)
BuiltinSetErrorHandlerStep ==
    /\ last = NoRequest
    /\ calls < MaxBuiltinCalls
    /\ errorHandler = "default"
    /\ SetErrorHandler("custom")

\* one request through ServeHTTP
BuiltinServeStep ==
    /\ last = NoRequest
    /\ \E path \in RequestPaths :
        LET f      == find("GET", path)
            mws    == Elems(heap, middlewares) \o Elems(heap, f.route.middlewares)
            stages == IF f.route.nil THEN <<>>
                      ELSE [i \in 1..Len(mws) |-> mws[i].id] \o <<f.route.handler>>
        IN  \E beh \in BuiltinBehaviours(stages) : handle("GET", path, beh)
    /\ UNCHANGED <<errorHandler, regLog, calls, handlerGiven,
                   templates, devMode, ctx, ret, server>>

NextBuiltin ==
    \/ BuiltinUseStep
    \/ BuiltinGroupStep
    \/ BuiltinRegisterStep
    \/ BuiltinSetErrorHandlerStep
    \/ BuiltinServeStep
    \/ RequestDone

SpecBuiltin == Init /\ [][NextBuiltin]_vars

-----------------------------------------------------------------------------
(* Steps of a program that serves static files *)

\* path.Clean for a path without "." and ".." elements: runs of slashes become
\* one slash and a trailing slash is dropped, except for the root
RECURSIVE Collapse(_)
Collapse(s) ==
    IF Len(s) < 2 THEN s
    ELSE IF s[1] = "/" /\ s[2] = "/" THEN Collapse(Tail(s))
    ELSE <<s[1]>> \o Collapse(Tail(s))

Clean(s) ==
    LET c == Collapse(s)
    IN  IF Len(c) > 1 /\ c[Len(c)] = "/" THEN SubSeq(c, 1, Len(c) - 1) ELSE c

\* path.Join(a, b): the non-empty elements joined by a slash, then cleaned
Join(a, b) ==
    IF a = <<>> THEN Clean(b)
    ELSE IF b = <<>> THEN Clean(a)
    ELSE Clean(a \o <<"/">> \o b)

\* "/*filepath"
WildcardPath == <<"/", "*", "f", "i", "l", "e", "p", "a", "t", "h">>

\* strings.HasPrefix(s, prefix)
HasPrefix(s, prefix) == Len(prefix) <= Len(s) /\ SubSeq(s, 1, Len(prefix)) = prefix

\* http.StripPrefix: the path the file server is asked for, <<>> when the
\* request path does not start with the prefix (the answer is then 404)
StripPrefix(prefix, path) ==
    IF HasPrefix(path, prefix) THEN SubSeq(path, Len(prefix) + 1, Len(path)) ELSE <<>>

\* the prefixes the program passes to Static and StaticFS
StaticPrefixes == << <<"/", "s">>, <<"/", "s", "/">>, <<"/", "s", "/", "t">> >>

\* the handlers Static(prefix, root) and StaticFS(prefix, filesystem, root)
\* register, for the p-th prefix, as the r-th registration
FileHandler(r, p) == <<"F", r, p>>
EmbeddedFileHandler(r, p) == <<"E", r, p>>
IsFileHandler(id) == id[1] \in {"F", "E"}

\* Engine.Static(prefix, root): e.GET(path.Join(prefix, "/*filepath"), handler)
StaticStep ==
    /\ last = NoRequest
    /\ calls < MaxStaticCalls
    /\ \E p \in 1..Len(StaticPrefixes) :
        Register(1, "GET", Join(StaticPrefixes[p], WildcardPath),
                 <<FileHandler(Len(regLog) + 1, p)>>)

\* Engine.StaticFS(prefix, filesystem, root): the same, after fs.Sub; it panics
\* when fs.Sub rejects root
StaticFSStep ==
    /\ last = NoRequest
    /\ calls < MaxStaticCalls
    /\ \E p \in 1..Len(StaticPrefixes), validRoot \in BOOLEAN :
        IF validRoot
        THEN Register(1, "GET", Join(StaticPrefixes[p], WildcardPath),
                      <<EmbeddedFileHandler(Len(regLog) + 1, p)>>)
        ELSE /\ calls' = calls + 1
             /\ last' = NoRequest
             /\ UNCHANGED <<heap, middlewares, groups, staticRoutes, paramRoutes,
                            errorHandler, regLog, handlerGiven,
                            templates, devMode, ctx, ret, server>>

\* the routes the program registers besides
StaticRoutePatterns == { <<"/", "s", "/", "a">>, <<"/", ":", "x", "/", ":", "y">> }

StaticRegisterStep ==
    /\ last = NoRequest
    /\ calls < MaxStaticCalls
    /\ \E path \in StaticRoutePatterns :
        Register(1, "GET", path, FreshHandlers(Len(regLog) + 1, 1))

\* the paths requested: files under the prefixes, the prefixes, and the
\* registered paths themselves
StaticRequestPaths ==
    {Clean(StaticPrefixes[p]) \o rest :
        p \in 1..Len(StaticPrefixes),
        rest \in {<<>>, <<"/">>, <<"/", "a">>, <<"/", "a", "/", "b">>, WildcardPath}}
    \cup {<<"/", "a">>}

StaticServeStep ==
    /\ last = NoRequest
    /\ \E path \in StaticRequestPaths :
        LET f == find("GET", path)
        IN  handle("GET", path,
                   IF f.route.nil THEN EmptyMap
                   ELSE (f.route.handler :>
                            IF IsFileHandler(f.route.handler) THEN "serve" ELSE "write"))
    /\ UNCHANGED <<errorHandler, regLog, calls, handlerGiven,
                   templates, devMode, ctx, ret, server>>

NextStatic ==
    \/ StaticStep
    \/ StaticFSStep
    \/ StaticRegisterStep
    \/ StaticServeStep
    \/ RequestDone

SpecStatic == Init /\ [][NextStatic]_vars

-----------------------------------------------------------------------------
(* Helpers of Context: BindJSON and the typed query forms *)

\* strings.Contains(s, sub), for a non-empty sub
Contains(s, sub) == \E i \in 1..(Len(s) - Len(sub) + 1) : SubSeq(s, i, i + Len(sub) - 1) = sub

\* "application/json".  A header value is a sequence of pieces of text, this
\* being one piece.
ApplicationJSON == <<"application/json">>

\* the struct BindJSON is given a pointer to: Name string `json:"name"`,
\* Age int `json:"age"`; the JSON kind each field takes
Fields == [name |-> "string", age |-> "number"]

\* json.Unmarshal on an object: the members in order; a member with an unknown
\* key is skipped, one whose value does not fit the field is skipped and the
\* first such error is kept, every other one is stored
RECURSIVE DecodeMembers(_, _, _)
DecodeMembers(ms, v, err) ==
    IF ms = <<>> THEN [v |-> v, err |-> err]
    ELSE LET m == Head(ms)
         IN  IF m.key \notin DOMAIN Fields THEN DecodeMembers(Tail(ms), v, err)
             ELSE IF m.kind # Fields[m.key]
             THEN DecodeMembers(Tail(ms), v,
                                IF err = NilErr THEN <<"UnmarshalTypeError", m.key>> ELSE err)
             ELSE DecodeMembers(Tail(ms), [v EXCEPT ![m.key] = m.val], err)

\* json.Unmarshal(body, &v): the text is checked as a whole before anything is
\* stored; null stores nothing
Unmarshal(body, v) ==
    CASE body.kind = "truncated" -> [v |-> v, err |-> <<"SyntaxError">>]
      [] body.kind = "null"      -> [v |-> v, err |-> NilErr]
      [] OTHER                   -> DecodeMembers(body.members, v, NilErr)

\* BindJSON, but the Content-Type header is not looked at
BindJSON_AnyContentType(req, v) ==
    IF req.bodyNil THEN [v |-> v, err |-> <<"request body is empty">>]
    ELSE IF req.readErr THEN [v |-> v, err |-> <<"read error">>]
    ELSE IF req.body.kind = "empty" THEN [v |-> v, err |-> <<"empty json body">>]
    ELSE Unmarshal(req.body, v)

\* Context.BindJSON(v) on the request req; v is the struct pointed to
BindJSON(req, v) ==
    IF req.bodyNil THEN [v |-> v, err |-> <<"request body is empty">>]
    ELSE IF ~Contains(req.contentType, ApplicationJSON)
    THEN [v |-> v, err |-> <<"content-type must be application/json">>]
    ELSE IF req.readErr THEN [v |-> v, err |-> <<"read error">>]
    ELSE IF req.body.kind = "empty" THEN [v |-> v, err |-> <<"empty json body">>]
    ELSE Unmarshal(req.body, v)

\* Context.Query(key): url.Values.Get gives "" for a key that is not there
Query(req) == IF req.present THEN req.raw ELSE <<>>

\* ch - '0' for a decimal digit, 10 for any other character
DigitVal(ch) ==
    CASE ch = "0" -> 0 [] ch = "1" -> 1 [] ch = "5" -> 5 [] OTHER -> 10

\* the loop of strconv.Atoi over the characters after the sign
RECURSIVE AtoiDigits(_, _)
AtoiDigits(s, n) ==
    IF s = <<>> THEN [n |-> n, err |-> NilErr]
    ELSE IF DigitVal(Head(s)) > 9 THEN [n |-> 0, err |-> <<"invalid syntax">>]
    ELSE AtoiDigits(Tail(s), n * 10 + DigitVal(Head(s)))

\* strconv.Atoi(s), for s short enough not to leave the range of int
Atoi(s) ==
    IF s = <<>> THEN [n |-> 0, err |-> <<"invalid syntax">>]
    ELSE LET digits == IF s[1] \in {"-", "+"} THEN Tail(s) ELSE s
             r      == AtoiDigits(digits, 0)
         IN  IF digits = <<>> THEN [n |-> 0, err |-> <<"invalid syntax">>]
             ELSE IF r.err # NilErr THEN r
             ELSE [n |-> IF s[1] = "-" THEN 0 - r.n ELSE r.n, err |-> NilErr]

\* the strings strconv.ParseBool takes for true and for false
TrueWords == { <<"1">>, <<"t">>, <<"T">>, <<"T", "R", "U", "E">>, <<"t", "r", "u", "e">>,
               <<"T", "r", "u", "e">> }
FalseWords == { <<"0">>, <<"f">>, <<"F">>, <<"F", "A", "L", "S", "E">>,
                <<"f", "a", "l", "s", "e">>, <<"F", "a", "l", "s", "e">> }

\* strconv.ParseBool(str)
ParseBool(str) ==
    IF str \in TrueWords THEN [b |-> TRUE, err |-> NilErr]
    ELSE IF str \in FalseWords THEN [b |-> FALSE, err |-> NilErr]
    ELSE [b |-> FALSE, err |-> <<"invalid syntax">>]

\* QueryInt, but a value that does not parse gives 0 and no error
QueryInt_ErrorDropped(req) == [value |-> Atoi(Query(req)).n, err |-> NilErr]

\* Context.QueryInt(key)
QueryInt(req) ==
    LET val == Query(req)
    IN  IF val = <<>> THEN [value |-> 0, err |-> NilErr]
        ELSE [value |-> Atoi(val).n, err |-> Atoi(val).err]

\* Context.QueryBool(key)
QueryBool(req) ==
    LET val == Query(req)
    IN  IF val = <<>> THEN [value |-> FALSE, err |-> NilErr]
        ELSE [value |-> ParseBool(val).b, err |-> ParseBool(val).err]

\* DefaultQueryInt, but a value that does not parse gives 0
DefaultQueryInt_ZeroOnFailure(req, defaultValue) ==
    LET val == Query(req)
    IN  IF val = <<>> THEN defaultValue ELSE Atoi(val).n

\* Context.DefaultQueryInt(key, defaultValue)
DefaultQueryInt(req, defaultValue) ==
    LET val == Query(req)
    IN  IF val = <<>> THEN defaultValue
        ELSE IF Atoi(val).err # NilErr THEN defaultValue
        ELSE Atoi(val).n

(* The requests the helpers are called on *)

\* the sequences over S of length at most n
SeqsUpTo(S, n) == UNION {[1..k -> S] : k \in 0..n}

\* Requests BindJSON is called on, and the struct before the call.  A value of
\* the Content-Type header is a sequence of pieces of text, <<>> for a request
\* without the header; a body is no bytes, null, an object, or an object cut
\* short; a request made by hand may have a nil Body.
BindInputs ==
    LET ContentTypes ==
            { <<>>, <<"application/json">>, <<"application/json", "; charset=utf-8">>,
              <<"text/plain">>, <<"application/json", "p">>,
              <<"application/x-", "application/json">> }
        Members ==
            [key : {"name", "age", "other"}, kind : {"string"}, val : {"mows"}]
            \cup [key : {"name", "age", "other"}, kind : {"number"}, val : {7}]
        NoBytes == [kind |-> "empty", members |-> <<>>]
        Bodies ==
            { NoBytes, [kind |-> "null", members |-> <<>>] }
            \cup [kind : {"object", "truncated"}, members : SeqsUpTo(Members, MaxMembers)]
        Targets == { [name |-> "", age |-> 0], [name |-> "old", age |-> 1] }
    IN  [op : {"bind"}, bodyNil : {FALSE}, contentType : ContentTypes, readErr : BOOLEAN,
         body : Bodies, v : Targets]
        \cup [op : {"bind"}, bodyNil : {TRUE}, contentType : {<<>>, <<"application/json">>},
              readErr : {FALSE}, body : {NoBytes}, v : Targets]

\* Requests the query forms are called on: the parameter is missing, or present
\* with a raw value
QueryInputs ==
    LET QueryValues ==
            SeqsUpTo({"0", "1", "5", "-", "+", "a"}, MaxQueryLen)
            \cup TrueWords \cup FalseWords
            \cup { <<"t", "R", "U", "E">>, <<"y", "e", "s">> }
    IN  [op : {"query"}, present : {TRUE}, raw : QueryValues]
        \cup { [op |-> "query", present |-> FALSE, raw |-> <<>>] }

\* the default values passed
Defaults == {1, 7}

InitContext ==
    /\ EngineNew
    /\ ctx \in BindInputs \cup QueryInputs
    /\ ret = NoResult

engine == <<heap, middlewares, groups, staticRoutes, paramRoutes, errorHandler, regLog, calls,
            handlerGiven, last, templates, devMode, server>>

BindJSONStep ==
    /\ ctx.op = "bind" /\ ret.op = "none"
    /\ LET r == BindJSON(ctx, ctx.v)
       IN  ret' = [op |-> "BindJSON", v |-> r.v, err |-> r.err]
    /\ UNCHANGED <<engine, ctx>>

QueryIntStep ==
    /\ ctx.op = "query" /\ ret.op = "none"
    /\ LET r == QueryInt(ctx)
       IN  ret' = [op |-> "QueryInt", value |-> r.value, err |-> r.err]
    /\ UNCHANGED <<engine, ctx>>

QueryBoolStep ==
    /\ ctx.op = "query" /\ ret.op = "none"
    /\ LET r == QueryBool(ctx)
       IN  ret' = [op |-> "QueryBool", value |-> r.value, err |-> r.err]
    /\ UNCHANGED <<engine, ctx>>

DefaultQueryIntStep ==
    /\ ctx.op = "query" /\ ret.op = "none"
    /\ \E d \in Defaults :
        ret' = [op |-> "DefaultQueryInt", value |-> DefaultQueryInt(ctx, d), err |-> NilErr,
                defaultValue |-> d]
    /\ UNCHANGED <<engine, ctx>>

NextContext ==
    \/ BindJSONStep
    \/ QueryIntStep
    \/ QueryBoolStep
    \/ DefaultQueryIntStep

SpecContext == InitContext /\ [][NextContext]_vars

-----------------------------------------------------------------------------
(* Templates: LoadTemplates, LoadTemplatesFS, AddTemplateFunc, DevMode, HTML *)

\* defaultFuncMap(): a new map of the three default helpers.  A FuncMap is
\* modelled as name -> which function: "default" for the ones defined here,
\* "given" for one a caller passed to AddTemplateFunc.
defaultFuncMap == [n \in {"safeHTML", "now", "date"} |-> "default"]

ErrTemplatesNotLoaded == <<"templates not loaded">>

\* TemplateEngine.load(): ParseGlob(t.pattern) with t.funcMap.  Funcs copies
\* the entries of the map into the template, so the parsed set has the
\* functions the map had at this call.  It fails when
\* the pattern matches no file, as the empty pattern does, or a file does not
\* parse; found says whether the files are there and parse.
load(t, found) ==
    IF t.pattern = "" \/ ~found
    THEN [t |-> t, err |-> <<"template: pattern matches no files">>]
    ELSE [t |-> [t EXCEPT !.tmpl = [nil |-> FALSE, funcs |-> t.funcMap, from |-> "disk"]],
          err |-> NilErr]

\* TemplateEngine.loadFS(filesystem, pattern): ParseFS with t.funcMap
loadFS(t, found) ==
    IF ~found
    THEN [t |-> t, err |-> <<"template: pattern matches no files">>]
    ELSE [t |-> [t EXCEPT !.tmpl = [nil |-> FALSE, funcs |-> t.funcMap, from |-> "embed"]],
          err |-> NilErr]

\* what the configuration calls of this section leave alone
routing == <<heap, middlewares, groups, staticRoutes, paramRoutes, errorHandler, regLog,
             handlerGiven, last, ctx>>

\* Engine.LoadTemplates(pattern)
LoadTemplatesStep ==
    /\ ret.op = "none" /\ calls < MaxTemplateCalls
    /\ \E found \in BOOLEAN :
        LET r == load([nil |-> FALSE, pattern |-> "views/*.html", funcMap |-> defaultFuncMap,
                       tmpl |-> NilTmpl, loaded |-> TRUE, added |-> templates.added], found)
        IN  templates' = IF r.err # NilErr THEN templates ELSE r.t
    /\ calls' = calls + 1
    /\ UNCHANGED <<routing, devMode, ret, server>>

\* Engine.LoadTemplatesFS(filesystem, pattern)
LoadTemplatesFSStep ==
    /\ ret.op = "none" /\ calls < MaxTemplateCalls
    /\ \E found \in BOOLEAN :
        LET r == loadFS([nil |-> FALSE, pattern |-> "views/*.html", funcMap |-> defaultFuncMap,
                         tmpl |-> NilTmpl, loaded |-> TRUE, added |-> templates.added], found)
        IN  templates' = IF r.err # NilErr THEN templates ELSE r.t
    /\ calls' = calls + 1
    /\ UNCHANGED <<routing, devMode, ret, server>>

\* Engine.AddTemplateFunc(name, fn)
AddTemplateFuncStep ==
    /\ ret.op = "none" /\ calls < MaxTemplateCalls
    /\ \E name \in {"upper", "now"} :
        templates' =
            IF templates.nil
            THEN [nil |-> FALSE, pattern |-> "", funcMap |-> MapPut(defaultFuncMap, name, "given"),
                  tmpl |-> NilTmpl, loaded |-> FALSE, added |-> {name}]
            ELSE [templates EXCEPT !.funcMap = MapPut(@, name, "given"),
                                   !.added = @ \cup {name}]
    /\ calls' = calls + 1
    /\ UNCHANGED <<routing, devMode, ret, server>>

\* Engine.DevMode(enable)
DevModeStep ==
    /\ ret.op = "none" /\ calls < MaxTemplateCalls
    /\ \E enable \in BOOLEAN : devMode' = enable
    /\ calls' = calls + 1
    /\ UNCHANGED <<routing, templates, ret, server>>

\* Context.HTML(code, name, data) with code 200.  found says whether the files
\* of the pattern are there when dev mode parses them again, defined whether
\* the set has a template called name.  Calling ExecuteTemplate on a nil
\* *template.Template panics.
HTMLStep ==
    /\ ret.op = "none"
    /\ \E found \in BOOLEAN, defined \in BOOLEAN :
        LET r == IF devMode THEN load(templates, found) ELSE [t |-> templates, err |-> NilErr]
        IN  IF templates.nil
            THEN /\ ret' = [op |-> "HTML", err |-> ErrTemplatesNotLoaded, out |-> <<>>,
                            body |-> "", panic |-> FALSE, tmpl |-> NilTmpl]
                 /\ UNCHANGED templates
            ELSE IF r.err # NilErr
            THEN /\ ret' = [op |-> "HTML", err |-> r.err, out |-> <<>>, body |-> "",
                            panic |-> FALSE, tmpl |-> NilTmpl]
                 /\ UNCHANGED templates
            ELSE /\ templates' = r.t
                 /\ ret' = [op |-> "HTML",
                            err |-> IF r.t.tmpl.nil \/ defined THEN NilErr
                                    ELSE <<"html/template: name is undefined">>,
                            out |-> <<StatusOK>>,
                            body |-> IF r.t.tmpl.nil \/ ~defined THEN "" ELSE "page",
                            panic |-> r.t.tmpl.nil,
                            tmpl |-> r.t.tmpl]
    /\ UNCHANGED <<routing, devMode, calls, server>>

\* the handler that called HTML has returned
HTMLDone ==
    /\ ret.op = "HTML"
    /\ ret' = NoResult
    /\ UNCHANGED <<routing, templates, devMode, calls, server>>

NextTemplates ==
    \/ LoadTemplatesStep
    \/ LoadTemplatesFSStep
    \/ AddTemplateFuncStep
    \/ DevModeStep
    \/ HTMLStep
    \/ HTMLDone

SpecTemplates == Init /\ [][NextTemplates]_vars

-----------------------------------------------------------------------------
(* Run, RunTLS and shutdown *)

\* what the steps of this section leave alone
app == <<routing, calls, templates, devMode, ret>>

\* Engine.Run(addr) / Engine.RunTLS(addr, certFile, keyFile) up to the select:
\* e.server is made, the channel serverErr (capacity 1) is made, the listener
\* goroutine is started, the channel stop (capacity 1) is made and registered
\* with signal.Notify
RunStep ==
    /\ server.run = "idle"
    /\ server' = [server EXCEPT !.run = "select", !.listener = "serving"]
    /\ UNCHANGED app

\* the listener goroutine, had serverErr been made without a buffer
\* (make(chan error)): the send waits for Run to be parked in its select
ListenStep_Unbuffered ==
    /\ \/ /\ server.listener = "serving"
          /\ server' = [server EXCEPT !.listener = "returned",
                                       !.lnErr = IF server.inShutdown
                                                 THEN "http: Server closed"
                                                 ELSE "listen: address already in use"]
       \/ /\ server.listener = "returned"
          /\ server.run = "parked"
          /\ server' = [server EXCEPT !.listener = "done", !.run = "woken",
                                       !.taken = <<"serverErr", server.lnErr>>]
    /\ UNCHANGED <<heap, middlewares, groups, staticRoutes, paramRoutes, errorHandler,
                   regLog, handlerGiven, last, ctx, calls, templates, devMode, ret>>

\* the listener goroutine, serverErr <- e.server.ListenAndServe():
\* ListenAndServe returns, with http.ErrServerClosed once Shutdown has been
\* called and with the listener's error otherwise; then the goroutine sends
\* what it returned: to the select of Run when Run is parked in it, which
\* fixes the case the select takes, and into the buffer of serverErr
\* (make(chan error, 1)) otherwise, which it can do when the buffer has room
ListenStep ==
    /\ \/ /\ server.listener = "serving"
          /\ server' = [server EXCEPT !.listener = "returned",
                                       !.lnErr = IF server.inShutdown
                                                 THEN "http: Server closed"
                                                 ELSE "listen: address already in use"]
       \/ /\ server.listener = "returned"
          /\ server.run = "parked"
          /\ server' = [server EXCEPT !.listener = "done", !.run = "woken",
                                       !.taken = <<"serverErr", server.lnErr>>]
       \/ /\ server.listener = "returned"
          /\ server.run # "parked"
          /\ Len(server.serverErr) < 1
          /\ server' = [server EXCEPT !.listener = "done",
                                       !.serverErr = Append(@, server.lnErr)]
    /\ UNCHANGED app

\* the http.Server accepts a connection and reads a request from it, or reads
\* a request from an idle connection: the request is in flight.  A server in
\* shutdown has closed its listeners.
AcceptStep ==
    /\ server.listener = "serving" /\ ~server.inShutdown
    /\ \/ /\ Len(server.conns) < MaxConns
          /\ server' = [server EXCEPT !.conns = Append(@, "active")]
       \/ \E i \in DOMAIN server.conns :
            /\ server.conns[i] = "idle"
            /\ server' = [server EXCEPT !.conns[i] = "active"]
    /\ UNCHANGED app

\* the handler of a request in flight returns: the connection is kept alive,
\* idle, unless the server is in shutdown, when it is closed
FinishStep ==
    /\ \E i \in DOMAIN server.conns :
        /\ server.conns[i] = "active"
        /\ server' = [server EXCEPT
                         !.conns[i] = IF server.inShutdown THEN "closed" ELSE "idle"]
    /\ UNCHANGED app

\* the process is sent os.Interrupt or SIGTERM: the signal goes to the select
\* of Run when Run is parked in it; otherwise signal.Notify's channel
\* (make(chan os.Signal, 1)) takes the signal when its buffer has room and
\* drops it when it has none
SignalStep ==
    /\ server.run # "idle"
    /\ \E sig \in {"interrupt", "terminated"} :
        \/ /\ server.run = "parked"
           /\ server' = [server EXCEPT !.run = "woken", !.taken = <<"stop", sig>>]
        \/ /\ server.run # "parked"
           /\ Len(server.stop) < 1
           /\ server' = [server EXCEPT !.stop = Append(@, sig)]
    /\ UNCHANGED app

\* the select of Run: the listener's error is returned, or a signal is taken
\* and shutdown() begins: the context with the 5 second timeout is made and
\* Server.Shutdown marks the server as in shutdown and closes its listeners.
\* When both channels are ready Go takes either; when neither is, Run parks,
\* and the first sender to reach a parked select decides its case.
SelectStep ==
    /\ \/ /\ server.run = "select"
          /\ server.serverErr # <<>>
          /\ server' = [server EXCEPT !.run = "returned",
                                       !.result = Head(server.serverErr),
                                       !.serverErr = Tail(@)]
       \/ /\ server.run = "select"
          /\ server.stop # <<>>
          /\ server' = [server EXCEPT !.run = "poll", !.stop = Tail(@),
                                       !.inShutdown = TRUE, !.elapsed = 0]
       \/ /\ server.run = "select"
          /\ server.serverErr = <<>> /\ server.stop = <<>>
          /\ server' = [server EXCEPT !.run = "parked"]
       \/ /\ server.run = "woken"
          /\ server.taken[1] = "serverErr"
          /\ server' = [server EXCEPT !.run = "returned",
                                       !.result = server.taken[2], !.taken = <<>>]
       \/ /\ server.run = "woken"
          /\ server.taken[1] = "stop"
          /\ server' = [server EXCEPT !.run = "poll", !.taken = <<>>,
                                       !.inShutdown = TRUE, !.elapsed = 0]
    /\ UNCHANGED app

\* e.server.Shutdown(ctx) inside shutdown(), and the return of Run with its
\* result.  Shutdown closes the idle connections and returns nil when no
\* connection is left open; otherwise it waits for its poll timer, which
\* brings it back to closing idle connections, or for ctx.Done(), and then it
\* returns ctx.Err().  It closes no connection that has a request in flight.
ShutdownStep ==
    /\ \/ /\ server.run = "poll"
          /\ LET closed == [i \in DOMAIN server.conns |->
                               IF server.conns[i] = "idle" THEN "closed" ELSE server.conns[i]]
                 quiet == \A i \in DOMAIN closed : closed[i] = "closed"
             IN  server' = [server EXCEPT !.conns = closed,
                                          !.run = IF quiet THEN "returned" ELSE "wait",
                                          !.result = IF quiet THEN "nil" ELSE @]
       \/ /\ server.run = "wait"
          /\ server' = [server EXCEPT !.run = "poll"]
       \/ /\ server.run = "wait"
          /\ server.elapsed >= GracePeriod
          /\ server' = [server EXCEPT !.run = "returned",
                                       !.result = "context deadline exceeded"]
    /\ UNCHANGED app

\* a second passes while Shutdown is running; the context is done when
\* GracePeriod of them have
TickStep ==
    /\ server.run \in {"poll", "wait"}
    /\ server.elapsed < GracePeriod
    /\ server' = [server EXCEPT !.elapsed = @ + 1]
    /\ UNCHANGED app

NextRun ==
    \/ RunStep
    \/ ListenStep
    \/ AcceptStep
    \/ FinishStep
    \/ SignalStep
    \/ SelectStep
    \/ ShutdownStep
    \/ TickStep

SpecRun == Init /\ [][NextRun]_vars

\* the Go scheduler runs a goroutine that can run: the listener goroutine,
\* started by `go func()` in Run, is not starved of its steps
SpecRunFair == SpecRun /\ WF_vars(ListenStep)

-----------------------------------------------------------------------------
(* Vocabulary of the properties *)

\* a request has just been dispatched
Served == last # NoRequest

\* a path with no ":" in it: a static route's path
IsStaticPath(p) == \A k \in 1..Len(p) : p[k] # ":"

\* the registrations made for exactly (m, p), by their position in regLog
RegsOf(m, p) == {i \in 1..Len(regLog) : regLog[i].method = m /\ regLog[i].path = p}

\* the registrations of parameterized routes for method m
ParamRegs(m) == {i \in 1..Len(regLog) : regLog[i].method = m /\ ~IsStaticPath(regLog[i].path)}

\* the registrations of static routes for method m
StaticRegs(m) == {i \in 1..Len(regLog) : regLog[i].method = m /\ IsStaticPath(regLog[i].path)}

MaxOf(S) == CHOOSE x \in S : \A y \in S : y <= x

MinOf(S) == CHOOSE x \in S : \A y \in S : x <= y

\* the terminal handler the i-th registration was given
FinalOf(i) == regLog[i].handlers[Len(regLog[i].handlers)]

\* the middleware list the i-th registration was made with: the group's list at
\* that time, then one wrapper per non-final handler, in the order given
GivenMws(i) ==
    regLog[i].groupMws \o
    [j \in 1..(Len(regLog[i].handlers) - 1) |-> [kind |-> "wrap", id |-> regLog[i].handlers[j]]]

\* the registration whose terminal handler the request reached
ServedReg == last.handler[2]

\* the segments of a pattern or of a request path
Segments(p) == Split(Trim(p))

IsCapture(seg) == seg # <<>> /\ seg[1] = ":"

\* the pattern and the path have the same number of segments, and every
\* literal segment of the pattern is the path's segment at that position
CouldMatch(pattern, path) ==
    LET ps == Segments(pattern)
        rs == Segments(path)
    IN  /\ Len(ps) = Len(rs)
        /\ \A k \in 1..Len(ps) : IsCapture(ps[k]) \/ ps[k] = rs[k]

\* the last capture segment of the pattern that has the name of segment k
LastWithName(ps, k) == MaxOf({j \in 1..Len(ps) : ps[j] = ps[k]})

\* the bindings a match of the pattern against the path gives: each capture
\* name is bound to the segment under the last capture segment of that name
BindingsOf(pattern, path) ==
    LET ps == Segments(pattern)
        rs == Segments(path)
    IN  [name \in {Tail(ps[k]) : k \in {j \in 1..Len(ps) : IsCapture(ps[j])}} |->
            rs[MaxOf({j \in 1..Len(ps) : IsCapture(ps[j]) /\ Tail(ps[j]) = name})]]

-----------------------------------------------------------------------------
(* C1 *)

\* C1: whenever a request is dispatched for a method and path a static route
\* was registered for, the route found is that static route (the one of the
\* last registration of the pair), with its middleware list and no parameters,
\* whatever parameterized routes were registered before or after it.
C1_StaticRouteFound ==
    (Served /\ IsStaticPath(last.path) /\ RegsOf(last.method, last.path) # {}) =>
        LET r == MaxOf(RegsOf(last.method, last.path))
        IN  /\ ~last.notFound
            /\ last.handler = FinalOf(r)
            /\ last.chain = GivenMws(r)
            /\ last.paramsNil
            /\ last.params = EmptyMap

\* a static route registered between two parameterized routes of the same
\* method that could both match its path, and a request for it answered by it
C1_Witness ==
    /\ Served
    /\ ~last.notFound
    /\ IsStaticPath(last.path)
    /\ \E i, j, k \in 1..Len(regLog) :
        /\ i < j /\ j < k
        /\ j \in RegsOf(last.method, last.path)
        /\ {i, k} \subseteq ParamRegs(last.method)
        /\ CouldMatch(regLog[i].path, last.path)
        /\ CouldMatch(regLog[k].path, last.path)
        /\ last.handler = FinalOf(j)

-----------------------------------------------------------------------------
(* C2 *)

\* C2 as stated: when the route found is a parameterized one, it has as many
\* segments as the request path, each of its literal segments is the request's
\* segment at that position, and each capture segment's name is bound to the
\* request's segment at that capture's position.
C2_EveryCaptureBindsItsSegment ==
    (Served /\ ~last.notFound /\ ~IsStaticPath(regLog[ServedReg].path)) =>
        LET ps == Segments(regLog[ServedReg].path)
            rs == Segments(last.path)
        IN  /\ Len(ps) = Len(rs)
            /\ ~last.paramsNil
            /\ \A k \in 1..Len(ps) :
                IF IsCapture(ps[k])
                THEN /\ Tail(ps[k]) \in DOMAIN last.params
                     /\ last.params[Tail(ps[k])] = rs[k]
                ELSE ps[k] = rs[k]

\* C2 (amended): when the route found is a parameterized one, it has as many
\* segments as the request path, each of its literal segments is the request's
\* segment at that position, and each capture segment's name is bound to the
\* request's segment at the position of the last capture segment of that name
\* (its own position, when no later capture segment repeats the name).
C2_CapturesBindLastOfName ==
    (Served /\ ~last.notFound /\ ~IsStaticPath(regLog[ServedReg].path)) =>
        LET ps == Segments(regLog[ServedReg].path)
            rs == Segments(last.path)
        IN  /\ Len(ps) = Len(rs)
            /\ ~last.paramsNil
            /\ \A k \in 1..Len(ps) :
                IF IsCapture(ps[k])
                THEN /\ Tail(ps[k]) \in DOMAIN last.params
                     /\ last.params[Tail(ps[k])] = rs[LastWithName(ps, k)]
                ELSE ps[k] = rs[k]

\* a request matched by a route with a literal segment and a capture segment,
\* another route of the same length having been passed over for its literal
C2_Witness ==
    /\ Served
    /\ ~last.notFound
    /\ ~IsStaticPath(regLog[ServedReg].path)
    /\ LET ps == Segments(regLog[ServedReg].path)
       IN  /\ \E k \in 1..Len(ps) : IsCapture(ps[k]) /\ last.params[Tail(ps[k])] # <<>>
           /\ \E k \in 1..Len(ps) : ~IsCapture(ps[k])
    /\ \E i \in ParamRegs(last.method) :
        /\ i < ServedReg
        /\ Len(Segments(regLog[i].path)) = Len(Segments(last.path))
        /\ ~CouldMatch(regLog[i].path, last.path)

-----------------------------------------------------------------------------
(* C3 *)

\* the parameterized registrations of the request's method that could match
\* the request's path
Candidates == {i \in ParamRegs(last.method) : CouldMatch(regLog[i].path, last.path)}

\* C3 as stated: when two or more parameterized routes of the request's method
\* could match the request's path, the route found is the earliest registered
\* of them: its handler, its middleware list and its bindings.
C3_EarliestCandidateFound ==
    (Served /\ Cardinality(Candidates) >= 2) =>
        LET r == MinOf(Candidates)
        IN  /\ ~last.notFound
            /\ last.handler = FinalOf(r)
            /\ last.chain = GivenMws(r)
            /\ ~last.paramsNil
            /\ last.params = BindingsOf(regLog[r].path, last.path)

\* C3 (amended): when two or more parameterized routes of the request's method
\* could match the request's path and no static route is registered for exactly
\* that method and path, the route found is the earliest registered of them:
\* its handler, its middleware list and its bindings.
C3_EarliestCandidateFoundUnlessStatic ==
    (Served /\ Cardinality(Candidates) >= 2 /\ RegsOf(last.method, last.path) = {}) =>
        LET r == MinOf(Candidates)
        IN  /\ ~last.notFound
            /\ last.handler = FinalOf(r)
            /\ last.chain = GivenMws(r)
            /\ ~last.paramsNil
            /\ last.params = BindingsOf(regLog[r].path, last.path)

\* two parameterized routes with different capture names could match, and the
\* request got the earlier one's handler and bindings
C3_Witness ==
    /\ Served
    /\ RegsOf(last.method, last.path) = {}
    /\ \E i, j \in Candidates :
        /\ i < j
        /\ BindingsOf(regLog[i].path, last.path) # BindingsOf(regLog[j].path, last.path)
        /\ last.handler = FinalOf(i)
        /\ last.params = BindingsOf(regLog[i].path, last.path)

-----------------------------------------------------------------------------
(* C4 *)

\* C4: for each method the static table holds exactly the static paths
\* registered for it, one route each, and that route is the one of the last
\* registration of the pair (its handler and its middleware list); a static
\* registration adds nothing to the parameterized routes.
C4_LastStaticRegistrationKept ==
    \A m \in Methods :
        /\ DOMAIN staticRoutes[m] = {regLog[i].path : i \in StaticRegs(m)}
        /\ \A p \in DOMAIN staticRoutes[m] :
            LET r == MaxOf(RegsOf(m, p))
            IN  /\ staticRoutes[m][p].handler = FinalOf(r)
                /\ Elems(heap, staticRoutes[m][p].middlewares) = GivenMws(r)
        /\ Len(paramRoutes[m]) = Cardinality(ParamRegs(m))

\* the same static path registered twice for a method: the second call went
\* through and the table holds its handler
C4_Witness ==
    \E m \in Methods : \E i, j \in StaticRegs(m) :
        /\ i < j
        /\ regLog[i].path = regLog[j].path
        /\ j = MaxOf(RegsOf(m, regLog[j].path))
        /\ staticRoutes[m][regLog[j].path].handler = FinalOf(j)
        /\ FinalOf(i) # FinalOf(j)

-----------------------------------------------------------------------------
(* Vocabulary of the chain properties *)

\* a request has just been dispatched to a route
Dispatched == Served /\ ~last.notFound

\* the ids of the stages entered, in the order they were entered
EntryIds(tr) ==
    LET s == SelectSeq(tr, LAMBDA e : e.ev \in {"pre", "run"})
    IN  [i \in 1..Len(s) |-> s[i].id]

\* the ids of the middleware whose call to next returned, in that order
ExitIds(tr) ==
    LET s == SelectSeq(tr, LAMBDA e : e.ev = "post")
    IN  [i \in 1..Len(s) |-> s[i].id]

Reverse(s) == [i \in 1..Len(s) |-> s[Len(s) + 1 - i]]

IdsOf(ms) == [i \in 1..Len(ms) |-> ms[i].id]

\* the global middleware in Use declaration order
GlobalsDeclared == [k \in 1..middlewares.len |-> <<"G", 0, k>>]

\* every stage of the request cooperates: middleware call next and return what
\* it returned, handlers return nil
AllCooperate == \A x \in DOMAIN last.beh : last.beh[x] \in {"next", "ok"}

\* the stages of the chain the request ran, outermost first
StagesRun == IdsOf(last.globals) \o IdsOf(last.chain) \o <<last.handler>>

\* the kinds of those stages
KindsRun == [i \in 1..Len(last.globals) + Len(last.chain) |->
                (last.globals \o last.chain)[i].kind] \o <<"handler">>

\* the prefix a group has by the Group calls that made it
RECURSIVE PrefixChain(_)
PrefixChain(g) ==
    IF g <= 1 THEN <<>> ELSE PrefixChain(groups[g].parent) \o PrefixOf(g)

\* every route in the table
AllRoutes ==
    UNION { {staticRoutes[m][p] : p \in DOMAIN staticRoutes[m]} : m \in Methods }
    \cup
    UNION { {paramRoutes[m][k].route : k \in 1..Len(paramRoutes[m])} : m \in Methods }

\* this step is a call of Use on a group
IsGroupUse == Len(groups') = Len(groups) /\ groups' # groups

-----------------------------------------------------------------------------
(* C5 *)

\* C5: when every middleware of a matched request calls next, the stages are
\* entered in the order: the global middleware in Use declaration order, the
\* group's middleware (outer group before inner), the non-final handlers in the
\* order given at registration, the terminal handler; the parts after next run
\* in the reverse order.
C5_EntryOrderGlobalGroupRouteHandler ==
    (Dispatched /\ AllCooperate) =>
        LET r == ServedReg
            outer == GlobalsDeclared \o IdsOf(regLog[r].groupMws)
            nonFinal == SubSeq(regLog[r].handlers, 1, Len(regLog[r].handlers) - 1)
        IN  /\ EntryIds(last.trace) = outer \o nonFinal \o <<FinalOf(r)>>
            /\ ExitIds(last.trace) = Reverse(outer)

\* the same order, for the routes whose stored list is still what they were
\* registered with
C5_EntryOrderWhenListIntact ==
    (Dispatched /\ AllCooperate /\ last.chain = GivenMws(ServedReg)) =>
        LET r == ServedReg
            outer == GlobalsDeclared \o IdsOf(regLog[r].groupMws)
            nonFinal == SubSeq(regLog[r].handlers, 1, Len(regLog[r].handlers) - 1)
        IN  /\ EntryIds(last.trace) = outer \o nonFinal \o <<FinalOf(r)>>
            /\ ExitIds(last.trace) = Reverse(outer)

-----------------------------------------------------------------------------
(* C6 *)

\* C6: when a stage returns an error, the stages entered are exactly those up to
\* it (a failing non-final handler keeps the terminal handler from running),
\* and every middleware entered before it gets the error back from its call to
\* next, as long as the middleware between them return what next returned.
C6_ErrorSkipsLaterStages ==
    Dispatched =>
        \A p \in 1..Len(StagesRun) :
            last.beh[StagesRun[p]] = "fail" =>
                /\ EntryIds(last.trace) = SubSeq(StagesRun, 1, p)
                /\ \A i \in 1..(p - 1) :
                     KindsRun[i] = "mw" =>
                        \E k \in 1..Len(last.trace) :
                            /\ last.trace[k].ev = "post"
                            /\ last.trace[k].id = StagesRun[i]
                            /\ last.trace[k].err =
                                 IF \E j \in (i + 1)..(p - 1) : last.beh[StagesRun[j]] = "swallow"
                                 THEN NilErr ELSE StagesRun[p]

\* a non-final handler failed behind a global middleware, which got the error
\* back, and the terminal handler did not run
C6_Witness ==
    /\ Dispatched
    /\ Len(last.globals) >= 1
    /\ \E p \in 1..Len(StagesRun) :
         /\ KindsRun[p] = "wrap"
         /\ last.beh[StagesRun[p]] = "fail"
         /\ \E k \in 1..Len(last.trace) :
               last.trace[k].ev = "post" /\ last.trace[k].err = StagesRun[p]
    /\ \A k \in 1..Len(last.trace) : last.trace[k].id # last.handler

-----------------------------------------------------------------------------
(* C7 *)

\* what the chain of the request returns, by what its stages do: the error of
\* the failing stage unless a middleware swallows it, else nil
ReturnedByChain ==
    LET failing == {x \in DOMAIN last.beh : last.beh[x] = "fail"}
        swallowing == {x \in DOMAIN last.beh : last.beh[x] = "swallow"}
    IN  IF failing # {} /\ swallowing = {} THEN CHOOSE x \in failing : TRUE ELSE NilErr

\* the error handler in force: the one last given to SetErrorHandler, else the
\* default
HandlerInForce == IF handlerGiven = "none" THEN "default" ELSE handlerGiven

\* C7: the error handler is called exactly once when the chain returns an error
\* and not at all when it returns nil (a middleware that returns without
\* calling next, or that swallows the error of next, included); after
\* SetErrorHandler(h) it is h that gets the error, not the default.
C7_ErrorHandlerOnceIffError ==
    Dispatched =>
        /\ last.err = ReturnedByChain
        /\ last.handled = IF ReturnedByChain # NilErr
                          THEN <<[by |-> HandlerInForce, err |-> ReturnedByChain]>>
                          ELSE <<>>

\* a chain returned an error after SetErrorHandler, and the handler set got it
C7_Witness ==
    /\ Dispatched
    /\ handlerGiven = "custom"
    /\ last.err # NilErr
    /\ last.handled = <<[by |-> "custom", err |-> last.err]>>

-----------------------------------------------------------------------------
(* C8 *)

\* no registered route matches the request
NoRouteMatches ==
    /\ \A i \in StaticRegs(last.method) : regLog[i].path # last.path
    /\ Candidates = {}

-----------------------------------------------------------------------------
(* C9 *)

\* C9: a nested group's prefix is the parent's prefix followed by its own, and
\* its middleware list is the parent's list when it was made followed by its
\* own middleware; a route registered on a group is found at prefix + path and
\* runs the group's list before its own route middleware.
C9_NestedGroupPrefixAndList ==
    /\ \A g \in 2..Len(groups) :
         /\ groups[g].prefix = PrefixChain(g)
         /\ groups[g].parent # 0 => Elems(heap, groups[g].middlewares) = groups[g].given
    /\ \A r \in 1..Len(regLog) :
         regLog[r].path = PrefixChain(regLog[r].group) \o regLog[r].rel
    /\ (Served /\ \E r \in 1..Len(regLog) : last.path = Concretize(regLog[r].path)) =>
         /\ ~last.notFound
         /\ CouldMatch(regLog[ServedReg].path, last.path)
         /\ last.chain = GivenMws(ServedReg)

\* the prefixes alone
C9_PrefixesConcatenate ==
    /\ \A g \in 2..Len(groups) : groups[g].prefix = PrefixChain(g)
    /\ \A r \in 1..Len(regLog) :
         regLog[r].path = PrefixChain(regLog[r].group) \o regLog[r].rel

-----------------------------------------------------------------------------
(* C10 *)

\* C10: a call of Use on a group leaves every route registered before it with
\* the middleware list it had.
C10_UseLeavesEarlierRoutes ==
    [][ IsGroupUse =>
          \A rt \in AllRoutes :
              Elems(heap', rt.middlewares) = Elems(heap, rt.middlewares) ]_vars

-----------------------------------------------------------------------------
(* C11 *)

\* this step is a registration
IsRegistration == Len(regLog') = Len(regLog) + 1

\* C11: a registration leaves every route registered before it, other than the
\* one it replaces, with its handler and with every element of its middleware
\* list.
C11_RegistrationLeavesOtherRoutes ==
    [][ IsRegistration =>
          \A m \in Methods :
              /\ \A p \in DOMAIN staticRoutes[m] :
                    staticRoutes'[m][p].handler = staticRoutes[m][p].handler =>
                        Elems(heap', staticRoutes'[m][p].middlewares)
                            = Elems(heap, staticRoutes[m][p].middlewares)
              /\ \A k \in 1..Len(paramRoutes[m]) :
                    /\ paramRoutes'[m][k].route.handler = paramRoutes[m][k].route.handler
                    /\ Elems(heap', paramRoutes'[m][k].route.middlewares)
                           = Elems(heap, paramRoutes[m][k].route.middlewares) ]_vars

-----------------------------------------------------------------------------
(* C12 *)

\* this step is a call on group p: Group (a sibling is made), Use, or a
\* registration
IsCallOn(p) ==
    \/ Len(groups') = Len(groups) + 1 /\ groups'[Len(groups')].parent = p
    \/ Len(groups') = Len(groups) /\ groups'[p] # groups[p]
    \/ IsRegistration /\ regLog'[Len(regLog')].group = p

\* C12: once a child group exists, no call on its parent (making a sibling,
\* Use, registering a route) changes an entry of the child's middleware list.
C12_ParentCallsLeaveChildList ==
    [][ \A g \in 2..Len(groups) :
            (groups[g].parent # 0 /\ IsCallOn(groups[g].parent)) =>
                Elems(heap', groups'[g].middlewares) = Elems(heap, groups[g].middlewares) ]_vars

(* The response of the request just served *)

\* the status the client gets: the first WriteHeader call decides it, and a
\* handler that returns without sending anything gets 200
ResponseStatus == IF last.written # <<>> THEN last.written[1] ELSE StatusOK

\* the body chunks sent, in order
RECURSIVE BodiesOf(_)
BodiesOf(o) ==
    IF o = <<>> THEN <<>>
    ELSE (IF Head(o).op = "respond" THEN <<Head(o).body>> ELSE <<>>) \o BodiesOf(Tail(o))

ResponseBody == BodiesOf(last.out)

\* rw.status after the first k output events: the code of the last WriteHeader
\* call, 200 before the first one
WrapperStatus(o, k) ==
    LET codes == CodesOf(SubSeq(o, 1, k))
    IN  IF codes = <<>> THEN StatusOK ELSE codes[Len(codes)]

\* the lines Logger printed for the request: status, method, path
LogLines ==
    LET at == {k \in 1..Len(last.out) : last.out[k].op = "log"}
        nth(S, n) == CHOOSE k \in S : Cardinality({j \in S : j <= k}) = n
    IN  [n \in 1..Cardinality(at) |->
            [status |-> WrapperStatus(last.out, nth(at, n)),
             method |-> last.method, path |-> last.path]]

\* what the stages sent before the chain returned or panicked
SentByStages == {k \in 1..Len(last.out) :
                    /\ last.out[k].op = "respond"
                    /\ last.out[k].body.ctype = "text/plain"}

(* C13 *)
\* the chain of the dispatched request returned an error and the default error
\* handler is installed
DefaultHandled == Dispatched /\ ~last.panicked /\ last.err # NilErr /\ errorHandler = "default"

\* C13 as stated: with the default error handler, a request whose chain returns
\* an error with message m gets status 400 and the JSON body {"error": m}.
C13_ErrorGets400 ==
    DefaultHandled =>
        /\ ResponseStatus = StatusBadRequest
        /\ ResponseBody = <<JSON(StatusBadRequest, serverError(last.err)).body>>

\* C13: with the default error handler, a request whose chain returns an error
\* with message m, no stage having sent a response before, gets status 400 and
\* the JSON body {"error": m}; after a stage has sent one, the status stays the
\* one that stage sent and {"error": m} is appended to the body.
C13_ErrorGets400UnlessSent ==
    DefaultHandled =>
        /\ SentByStages = {} =>
              /\ ResponseStatus = StatusBadRequest
              /\ ResponseBody = <<JSON(StatusBadRequest, serverError(last.err)).body>>
        /\ SentByStages # {} =>
              /\ ResponseStatus = StatusOK
              /\ ResponseBody[Len(ResponseBody)]
                    = JSON(StatusBadRequest, serverError(last.err)).body
              /\ Len(ResponseBody) = Cardinality(SentByStages) + 1

\* a handler failed without sending anything, behind a Logger, and got the 400
C13_Witness ==
    /\ DefaultHandled
    /\ SentByStages = {}
    /\ last.err = last.handler
    /\ last.globals # <<>>
    /\ ResponseStatus = StatusBadRequest

(* C14 *)
\* the stages, by position in the chain, whose user code ran and panicked
PanicAt == {j \in 1..Len(StagesRun) :
               /\ last.beh[StagesRun[j]] \in PanickingBehaviours
               /\ \E k \in 1..Len(last.trace) : last.trace[k].id = StagesRun[j]}

\* the Recover stages around the stage at position j
RecoversAround(j) == {i \in 1..(j - 1) : KindsRun[i] = "recover"}

\* a stage panicked with a Recover around it
Recovered == Dispatched /\ \E j \in PanicAt : RecoversAround(j) # {}

\* what the Recover stage at position i returned to its caller
ReturnedNil(i) ==
    IF i = 1 THEN last.err = NilErr
    ELSE \E k \in 1..Len(last.trace) :
            /\ last.trace[k].ev = "post"
            /\ last.trace[k].id = StagesRun[i - 1]
            /\ last.trace[k].err = NilErr

\* the body Recover sends
GenericError == JSON(StatusInternalServerError, serverError(<<"internal server error">>)).body

\* what holds of a recovered panic whatever was sent before it
RecoveredQuietly ==
    /\ ~last.panicked
    /\ \A j \in PanicAt : ReturnedNil(MaxOf(RecoversAround(j)))
    /\ last.handled = <<>>

LoggerInstalled ==
    Cardinality({k \in 1..middlewares.len : Elems(heap, middlewares)[k].kind = "logger"}) = 1

\* C16: with Logger installed as global middleware, every request the engine
\* handles produces one log line with its status, method and path, including
\* requests whose chain returns an error and requests that match no route.
C16_LoggerLogsEveryRequest ==
    (Served /\ LoggerInstalled) =>
        LogLines = <<[status |-> ResponseStatus, method |-> last.method, path |-> last.path]>>

(* C15 *)
\* the registrations made by Static and StaticFS
FileRegs == {i \in 1..Len(regLog) : IsFileHandler(regLog[i].handlers[1])}

\* the prefix passed to the call that made registration i
StaticPrefixOf(i) == StaticPrefixes[regLog[i].handlers[1][3]]

\* the path names something below the prefix, as /static/app.css does for /static
LiesUnder(path, prefix) ==
    LET dir == IF prefix[Len(prefix)] = "/" THEN prefix ELSE prefix \o <<"/">>
    IN  HasPrefix(path, dir) /\ Len(path) > Len(dir)

\* C15: after Static(prefix, root) or StaticFS(prefix, fs, root), every GET
\* request whose path lies under the prefix is matched by the registered route
\* and dispatched to the file-serving handler, which strips the prefix and
\* serves the remaining path.
C15_PathsUnderPrefixServed ==
    \A i \in FileRegs :
        (Served /\ LiesUnder(last.path, StaticPrefixOf(i))) =>
            /\ ~last.notFound
            /\ IsFileHandler(last.handler)
            /\ LiesUnder(last.path, StaticPrefixes[last.handler[3]])
            /\ StripPrefix(StaticPrefixes[last.handler[3]], last.path) # <<>>
            /\ last.out = <<ServeFile(last.handler)>>

(* C17 *)
Bound == ret.op = "BindJSON"

\* header values whose media type is application/json
JSONTypes == { <<"application/json">>, <<"application/json", "; charset=utf-8">> }

\* the request has no body bytes
NoBody == ctx.bodyNil \/ (~ctx.readErr /\ ctx.body.kind = "empty")

ContentTypeError == <<"content-type must be application/json">>
EmptyBodyErrors == { <<"request body is empty">>, <<"empty json body">> }

\* member i of the body's object fits the field it names
Fits(i) ==
    LET m == ctx.body.members[i]
    IN  m.key \in DOMAIN Fields /\ m.kind = Fields[m.key]

\* the struct after every fitting member of the body's object has been stored
Decoded ==
    [f \in DOMAIN Fields |->
        LET S == {i \in 1..Len(ctx.body.members) : Fits(i) /\ ctx.body.members[i].key = f}
        IN  IF S = {} THEN ctx.v[f] ELSE ctx.body.members[MaxOf(S)].val]

\* every member of the body's object that names a field fits it
AllFit ==
    \A i \in 1..Len(ctx.body.members) :
        ctx.body.members[i].key \in DOMAIN Fields => Fits(i)

DigitOf == [ch \in {"0", "1", "5"} |-> CASE ch = "0" -> 0 [] ch = "1" -> 1 [] ch = "5" -> 5]

\* s without its sign
Unsigned(s) == IF s # <<>> /\ s[1] \in {"-", "+"} THEN Tail(s) ELSE s

\* s is an optional sign and one or more decimal digits
IsIntText(s) ==
    /\ Unsigned(s) # <<>>
    /\ \A i \in 1..Len(Unsigned(s)) : Unsigned(s)[i] \in DOMAIN DigitOf

RECURSIVE Pow10(_)
Pow10(n) == IF n = 0 THEN 1 ELSE 10 * Pow10(n - 1)

\* the sum of digit * 10^place over the places from i on
RECURSIVE PlaceSum(_, _)
PlaceSum(d, i) ==
    IF i > Len(d) THEN 0 ELSE DigitOf[d[i]] * Pow10(Len(d) - i) + PlaceSum(d, i + 1)

\* the integer the text s denotes
IntOf(s) == IF s[1] = "-" THEN 0 - PlaceSum(Unsigned(s), 1) ELSE PlaceSum(Unsigned(s), 1)

\* C18: DefaultQueryInt(key, d) returns the integer the parameter denotes when
\* it is present and denotes one, and d when it is missing, empty or denotes
\* none; it reports no error.
C18_DefaultQueryIntValueOrDefault ==
    ret.op = "DefaultQueryInt" =>
        /\ ret.value = IF ctx.present /\ IsIntText(ctx.raw) THEN IntOf(ctx.raw)
                       ELSE ret.defaultValue
        /\ ret.err = NilErr

\* page=15 with default 1 gave 15
C18_Witness ==
    /\ ret.op = "DefaultQueryInt"
    /\ ctx.present /\ ctx.raw = <<"1", "5">>
    /\ ret.defaultValue = 1
    /\ ret.value = 15

(* C19 *)
Strict == ret.op \in {"QueryInt", "QueryBool"}

\* the raw value of the parameter denotes a value of the type asked for
Denotes ==
    /\ ctx.present
    /\ IF ret.op = "QueryInt" THEN IsIntText(ctx.raw)
       ELSE ctx.raw \in TrueWords \cup FalseWords

\* the value returned is the one the raw value denotes
ValueDenoted ==
    IF ret.op = "QueryInt" THEN ret.value = IntOf(ctx.raw)
    ELSE ret.value = (ctx.raw \in TrueWords)

C20_HTMLBeforeLoadFails ==
    (ret.op = "HTML" /\ ~templates.loaded) =>
        /\ ret.err = ErrTemplatesNotLoaded
        /\ ret.out = <<>> /\ ret.body = ""
        /\ ~ret.panic

(* C21 *)
\* the HTML call just made rendered a template of the set ret.tmpl
Rendered == ret.op = "HTML" /\ ret.body = "page"

\* C21: a helper registered with AddTemplateFunc(name, fn) is available to
\* the templates Context.HTML renders: the template set a call of HTML
\* rendered has, under each name AddTemplateFunc was called with, the function
\* given, whether the call came before or after LoadTemplates /
\* LoadTemplatesFS and with dev mode on or off.
C21_HelpersAvailable ==
    Rendered =>
        \A name \in templates.added :
            /\ name \in DOMAIN ret.tmpl.funcs
            /\ ret.tmpl.funcs[name] = "given"

(* C22 *)
\* C22: dev-mode hot reload does not apply to templates loaded from an
\* embedded filesystem: a call of Context.HTML made while the engine holds the
\* set LoadTemplatesFS parsed executes that set and leaves it in place, never
\* parsing templates from the real filesystem, whether DevMode is enabled or
\* not.
C22_EmbeddedSetNeverReparsed ==
    [][(ret.op = "none" /\ ret'.op = "HTML" /\ templates.tmpl.from = "embed") =>
          /\ templates'.tmpl = templates.tmpl
          /\ ret'.tmpl = templates.tmpl]_vars

(* C23 *)
\* Run has returned from shutdown(), that is after taking a signal
ReturnedFromShutdown ==
    server.run = "returned" /\ server.result \in {"nil", "context deadline exceeded"}

\* the connections with a request in flight
InFlight == {i \in DOMAIN server.conns : server.conns[i] = "active"}

\* C23: when an interrupt or terminate signal arrives while Run (or RunTLS)
\* is serving, graceful shutdown waits for the requests in flight to finish
\* for at most the grace period and, if they have not finished by then,
\* forces the remaining connections closed before Run returns: once Run has
\* returned from shutdown no connection is left open, and it returned no
\* later than the grace period after shutdown began.
C23_ShutdownWaitsThenForcesClosed ==
    ReturnedFromShutdown =>
        /\ \A i \in DOMAIN server.conns : server.conns[i] = "closed"
        /\ server.elapsed <= GracePeriod

(* C24 *)
\* C24: after a request has been dispatched to a route, the status recorded
\* by the response-writer wrapper equals the status code sent to the client
\* and the recorded size equals the number of body bytes sent, for every
\* combination of Context.JSON, Context.Text and error-handler writes during
\* the request.  No body written here is empty, so the recorded size is the
\* number of bytes sent exactly when every body went through the wrapper's
\* Write.
C24_WrapperRecordsWhatWasSent ==
    (Dispatched /\ ~last.notFound /\ ~last.panicked) =>
        /\ WrapperStatus(last.out, Len(last.out)) = ResponseStatus
        /\ \A k \in 1..Len(last.out) :
              last.out[k].op = "respond" => last.out[k].counted

(* C25 *)
\* a path one of whose '/'-separated components starts with ':'
HasCaptureComponent(p) == \E k \in 1..Len(Segments(p)) : IsCapture(Segments(p)[k])

\* C25: addWithMiddleware stores a path in the static table (exact lookup,
\* last registration wins) if and only if no '/'-separated component of the
\* path starts with ':'; a path that contains ':' only inside a component
\* (/a:b) is a static route.
C25_StaticIffNoCaptureComponent ==
    \A i \in 1..Len(regLog) :
        LET m == regLog[i].method
            p == regLog[i].path
        IN  /\ (p \in DOMAIN staticRoutes[m]) <=> ~HasCaptureComponent(p)
            /\ ~HasCaptureComponent(p) =>
                  staticRoutes[m][p].handler = FinalOf(MaxOf(RegsOf(m, p)))

Fitting == {i \in 1..Len(regLog) :
              IF IsStaticPath(regLog[i].path) THEN regLog[i].path = last.path
              ELSE CouldMatch(regLog[i].path, last.path)}

\* C27: routing is keyed by method: the route a request is given was
\* registered for the request's method, and a request whose path is
\* registered only under other methods gets the not-found response an unknown
\* path gets, with no handler run (there is no method-not-allowed response).
C27_RoutingKeyedByMethod ==
    Served =>
        /\ ~last.notFound => regLog[ServedReg].method = last.method
        /\ (\A i \in Fitting : regLog[i].method # last.method) =>
              /\ last.notFound
              /\ last.out = <<NotFound>>
              /\ last.written = <<StatusNotFound>>
              /\ last.trace = <<>>

\* a request for a path that is registered, as a static and as a
\* parameterized route, under the other method only
C27_Witness ==
    /\ Served /\ last.notFound
    /\ \E i, j \in Fitting :
        /\ IsStaticPath(regLog[i].path) /\ ~IsStaticPath(regLog[j].path)
        /\ regLog[i].method # last.method /\ regLog[j].method # last.method

(* C28 *)
\* the capture names of a pattern
CaptureNames(pattern) ==
    {Tail(Segments(pattern)[k]) :
        k \in {j \in 1..Len(Segments(pattern)) : IsCapture(Segments(pattern)[j])}}

\* the names a handler may ask Param for
ParamNames == {<<"x">>, <<"y">>, <<"b">>, <<>>}

\* C28 as stated: the parameter mapping bound into the Context for a matched
\* parameterized route contains exactly the capture names of the winning
\* route, each bound to the request segment at its position; bindings made
\* while testing earlier candidates that were rejected never appear, and for
\* a static match Param(name) returns the empty string for every name.
C28_ParamsOfWinningRoute ==
    (Served /\ ~last.notFound) =>
        LET ps == Segments(regLog[ServedReg].path)
            rs == Segments(last.path)
        IN  IF IsStaticPath(regLog[ServedReg].path)
            THEN \A name \in ParamNames : Param(last.params, name) = <<>>
            ELSE /\ DOMAIN last.params = CaptureNames(regLog[ServedReg].path)
                 /\ \A k \in 1..Len(ps) :
                       IsCapture(ps[k]) => Param(last.params, Tail(ps[k])) = rs[k]

\* C28 (amended): the mapping contains exactly the capture names of the
\* winning route, each bound to the request segment at the position of the
\* last capture segment of that name in the route (its own position when the
\* name is not repeated); nothing bound while testing rejected candidates
\* appears, and for a static match Param(name) returns the empty string for
\* every name.
C28_ParamsOfWinningRouteLastOfName ==
    (Served /\ ~last.notFound) =>
        LET ps == Segments(regLog[ServedReg].path)
            rs == Segments(last.path)
        IN  IF IsStaticPath(regLog[ServedReg].path)
            THEN \A name \in ParamNames : Param(last.params, name) = <<>>
            ELSE /\ DOMAIN last.params = CaptureNames(regLog[ServedReg].path)
                 /\ \A k \in 1..Len(ps) :
                       IsCapture(ps[k]) =>
                           Param(last.params, Tail(ps[k])) = rs[LastWithName(ps, k)]

\* a request matched by a parameterized route after an earlier candidate of
\* the same length had bound a capture of another name and was rejected for
\* a literal segment
C28_Witness ==
    /\ Served /\ ~last.notFound
    /\ ~IsStaticPath(regLog[ServedReg].path)
    /\ last.params # EmptyMap
    /\ \E i \in ParamRegs(last.method) :
        /\ i < ServedReg
        /\ Len(Segments(regLog[i].path)) = Len(Segments(last.path))
        /\ ~CouldMatch(regLog[i].path, last.path)
        /\ IsCapture(Segments(regLog[i].path)[1])
        /\ CaptureNames(regLog[i].path) \cap CaptureNames(regLog[ServedReg].path) = {}

(* C29 *)
\* the request's path is a key of the static table of its method
StaticHit(path) == path \in DOMAIN staticRoutes[last.method]

\* C29: leading and trailing slashes are ignored when matching parameterized
\* routes but not static routes: a request that no static route answers is
\* given the route and the bindings every other path with the same segments
\* is given (/a/b and /a/b/ against /a/:x), whereas a static route is found
\* only for the byte-exact path it was registered with, and a path that
\* differs from it by a slash is not found unless a parameterized route
\* matches it.
C29_SlashesIgnoredForParamRoutesOnly ==
    Served =>
        /\ ~StaticHit(last.path) =>
              \A other \in LookupPaths :
                  (Trim(other) = Trim(last.path) /\ ~StaticHit(other)) =>
                      LET f == find(last.method, other)
                      IN  /\ f.route.nil = last.notFound
                          /\ ~f.route.nil =>
                                /\ f.route.handler = last.handler
                                /\ f.params = last.params
        /\ (~last.notFound /\ IsStaticPath(regLog[ServedReg].path)) =>
              regLog[ServedReg].path = last.path
        /\ (~StaticHit(last.path) /\ ~\E i \in ParamRegs(last.method) :
                                          CouldMatch(regLog[i].path, last.path)) =>
              last.notFound

\* the request /a/ where /a is a static route: it is answered by the
\* parameterized route /:x, with the binding the request /a would get from
\* it were /a not registered
C29_Witness ==
    /\ Served /\ ~last.notFound
    /\ last.path = <<"/", "a", "/">>
    /\ StaticHit(<<"/", "a">>)
    /\ regLog[ServedReg].path = <<"/", ":", "x">>
    /\ last.params = (<<"x">> :> <<"a">>)

(* C30 *)
\* C30: a capture segment matches any request segment including the empty
\* one: with no static route for the path, GET / matches a registered /:id
\* with id bound to the empty string, and /a//b matches /a/:x/b with x bound
\* to the empty string.  The parameterized registrations a request fits
\* count the empty segment as a segment, and when the request is answered by
\* one of them and its segment under a capture is empty, the capture's name
\* is bound to the empty string.
C30_CaptureMatchesEmptySegment ==
    (Served /\ ~StaticHit(last.path)) =>
        /\ Len(Segments(last.path)) >= 1
        /\ (\E i \in ParamRegs(last.method) : CouldMatch(regLog[i].path, last.path)) =>
              ~last.notFound
        /\ ~last.notFound =>
              LET ps == Segments(regLog[ServedReg].path)
                  rs == Segments(last.path)
              IN  \A k \in 1..Len(ps) :
                      (IsCapture(ps[k]) /\ LastWithName(ps, k) = k /\ rs[k] = <<>>) =>
                          /\ Tail(ps[k]) \in DOMAIN last.params
                          /\ last.params[Tail(ps[k])] = <<>>

\* the request /a//b answered by /a/:x/b with x bound to the empty string
C30_Witness ==
    /\ Served /\ ~last.notFound
    /\ last.path = <<"/", "a", "/", "/", "b">>
    /\ regLog[ServedReg].path = <<"/", "a", "/", ":", "x", "/", "b">>
    /\ last.params = (<<"x">> :> <<>>)

-----------------------------------------------------------------------------
(* C31 *)

\* the select of Run receives a signal: from the buffer of stop when it is
\* evaluated, or from signal.Notify's send while it is parked
SignalTaken ==
    \/ server.run = "select" /\ server'.run = "poll"
    \/ server.run = "parked" /\ server'.run = "woken" /\ server'.taken[1] = "stop"

\* Run returns once: having returned, it stays returned with the same result
ReturnsOnce ==
    server.run = "returned" => server'.run = "returned" /\ server'.result = server.result

\* what Run returned is the error the listener goroutine sent, with no signal
\* taken, or the result of shutdown(), with one taken
ReturnsListenerErrorOrShutdown ==
    server.run = "returned" =>
        IF server.inShutdown
        THEN server.result \in {"nil", "context deadline exceeded"}
        ELSE /\ server.listener = "done"
             /\ server.result = server.lnErr
             /\ server.result = "listen: address already in use"

\* the listener goroutine holding the result of ListenAndServe can send it
SendNeverBlocks == server.listener = "returned" => ENABLED ListenStep

\* once Run has returned, the listener goroutine ends
NoGoroutineLeftBlocked == (server.run = "returned") ~> (server.listener = "done")

\* C31 (as stated): Run returns exactly once: with the listener's error if the
\* listener stops before a signal is taken, otherwise with the result of
\* shutdown after an interrupt/terminate signal; the listener goroutine's send
\* of its result never blocks, so no goroutine is left blocked after Run
\* returns.  A signal is therefore taken only while the listener is serving.
C31_ListenerErrorWinsOverLaterSignal ==
    /\ [][ReturnsOnce]_vars
    /\ []ReturnsListenerErrorOrShutdown
    /\ [][SignalTaken => server.listener = "serving"]_vars
    /\ []SendNeverBlocks
    /\ NoGoroutineLeftBlocked

\* C31 (amended): Run returns exactly once, with what its select receives:
\* the listener's error, or the result of shutdown after an
\* interrupt/terminate signal.  A signal is taken after the listener has
\* stopped only while the listener has not sent its result yet, or when the
\* result and a signal are both ready as the select is evaluated, where Go
\* takes either; the listener's error is then never returned.  The listener
\* goroutine's send never blocks, and the goroutine ends after Run returns.
C31_RunReturnsOnceSendNeverBlocks ==
    /\ [][ReturnsOnce]_vars
    /\ []ReturnsListenerErrorOrShutdown
    /\ [][SignalTaken => \/ server.listener # "done"
                         \/ /\ server.run = "select"
                            /\ server.serverErr # <<>>
                            /\ server.stop # <<>>]_vars
    /\ []SendNeverBlocks
    /\ NoGoroutineLeftBlocked

\* Run has returned the result of shutdown although the listener had stopped
\* and sent its error, which stays unread in the buffer of serverErr
C31_Witness ==
    /\ server.run = "returned"
    /\ server.result = "nil"
    /\ server.listener = "done"
    /\ server.serverErr = <<"listen: address already in use">>

=============================================================================
